---- MODULE Spec2Model ----
(***************************************************************************)
(* The resilient API client of the storefront UI (src/lib/api.ts) and the   *)
(* data hooks that consume it (the TypeScript hook module stored in        *)
(* src/app/globals.css from line 278 on).                                  *)
(*                                                                         *)
(* A request is one call of apiRequest, which runs fetchWithRetry: a loop  *)
(* of network attempts separated by backoff waits.  The network, the       *)
(* timers and the user are the environment: they pick the outcome of each  *)
(* attempt, the moment a timer fires and the moment a hook is asked to     *)
(* fetch again.  JavaScript runs one task at a time, so each action below  *)
(* is one task: the code from one suspension point (await, timer) to the   *)
(* next, including the continuation of the hook that awaited the request.  *)
(***************************************************************************)
EXTENDS Integers, Sequences, FiniteSets, TLC

VARIABLES
    reqs,   \* the calls of apiRequest, by request id
    hp,     \* the state of one useProducts instance
    hsh,    \* the state of one useShops instance
    hs,     \* the state of one useSearchSuggestions instance
    hi,     \* the state of one useInitialData instance
    hq,     \* the state of a second useProducts instance
    browser \* the filter and page state of the storefront page

vars == <<reqs, hp, hsh, hs, hi, hq, browser>>

----------------------------------------------------------------------------
(* Bounds of the model *)

\* request ids available to one behaviour
MaxReqs == 4
\* calls of fetchProducts (of fetchSuggestions) that start a request, per
\* behaviour
MaxCalls == 2
\* changes of the query prop of useSearchSuggestions, and handler calls
\* of the storefront page, per behaviour
MaxChanges == 2
\* largest retry budget (maxRetries) of the policies tried in Spec
MaxRetriesBound == 5
\* pages of the product list (totalPages) the pagination controls offer
MaxPage == 2

ReqIds == 1..MaxReqs

----------------------------------------------------------------------------
(* Errors: src/lib/api.ts 7-24 *)

\* an APIError's optional `status` when it is not given
UndefinedStatus == -1
\* an error's `code` when it has none
UndefinedCode == "undefined"

\* no error object (an unassigned `lastError`, an unset result)
NoError ==
    [cls |-> "none", name |-> "none", message |-> "",
     status |-> UndefinedStatus, code |-> UndefinedCode,
     originalError |-> "none"]

\* new APIError(message, status, code, originalError)
APIError(message, status, code, originalError) ==
    [cls |-> "APIError", name |-> "APIError", message |-> message,
     status |-> status, code |-> code, originalError |-> originalError]

\* new NetworkError(message, originalError): status 0, code NETWORK_ERROR
NetworkError(message, originalError) ==
    [cls |-> "NetworkError", name |-> "NetworkError", message |-> message,
     status |-> 0, code |-> "NETWORK_ERROR", originalError |-> originalError]

\* `error instanceof APIError`: NetworkError extends APIError
InstanceOfAPIError(error) == error.cls \in {"APIError", "NetworkError"}

\* what fetch() rejects with: a TypeError when the network fails, a
\* DOMException named AbortError when its signal is aborted
TypeErrorRaw ==
    [cls |-> "TypeError", name |-> "TypeError", message |-> "Failed to fetch",
     status |-> UndefinedStatus, code |-> UndefinedCode, originalError |-> "none"]

AbortErrorRaw ==
    [cls |-> "DOMException", name |-> "AbortError",
     message |-> "The operation was aborted.",
     status |-> UndefinedStatus, code |-> UndefinedCode, originalError |-> "none"]

\* an error that carries the legacy code NETWORK_ERR, as the request
\* libraries built on XMLHttpRequest reject with
NetworkErrRaw ==
    [cls |-> "Error", name |-> "Error", message |-> "A network error occurred.",
     status |-> UndefinedStatus, code |-> "NETWORK_ERR", originalError |-> "none"]

\* a SyntaxError of response.json() on a body that is not JSON
SyntaxErrorRaw ==
    [cls |-> "SyntaxError", name |-> "SyntaxError",
     message |-> "Unexpected token", status |-> UndefinedStatus,
     code |-> UndefinedCode, originalError |-> "none"]

----------------------------------------------------------------------------
(* Retry policy: src/lib/api.ts 30-52 *)

DEFAULT_RETRY_CONFIG ==
    [maxRetries |-> 3, baseDelay |-> 1000, maxDelay |-> 10000,
     backoffMultiplier |-> 2]

Min(a, b) == IF a <= b THEN a ELSE b

\* mutant of calculateDelay: the cap at maxDelay is forgotten
calculateDelayUncapped(attempt, config) ==
    config.baseDelay * (config.backoffMultiplier ^ attempt)

\* Math.min(baseDelay * Math.pow(backoffMultiplier, attempt), maxDelay)
calculateDelay(attempt, config) ==
    Min(config.baseDelay * (config.backoffMultiplier ^ attempt), config.maxDelay)

\* the policies a call of fetchWithRetry is given in Spec: the default delay
\* schedule and two others, with every retry budget up to the bound
DelaySchedules ==
    { [baseDelay |-> 1000, maxDelay |-> 10000, backoffMultiplier |-> 2],
      [baseDelay |-> 3, maxDelay |-> 20, backoffMultiplier |-> 3],
      [baseDelay |-> 7, maxDelay |-> 5, backoffMultiplier |-> 1] }

Policies ==
    { [maxRetries |-> n, baseDelay |-> d.baseDelay, maxDelay |-> d.maxDelay,
       backoffMultiplier |-> d.backoffMultiplier] :
        n \in 0..MaxRetriesBound, d \in DelaySchedules }

----------------------------------------------------------------------------
(* One call of apiRequest / fetchWithRetry: src/lib/api.ts 55-162 *)

\* what the environment can answer to one attempt
Statuses == {200, 201, 400, 403, 404, 500, 503}
RawErrors == {TypeErrorRaw, AbortErrorRaw, NetworkErrRaw}
\* what fetch() rejects with when the transport fails
TransportErrors == {TypeErrorRaw, NetworkErrRaw}

\* the bodies an ok response can carry: the envelope {success, data, error}
\* or text that is not JSON
Bodies ==
    { [json |-> TRUE, success |-> TRUE, error |-> ""],
      [json |-> TRUE, success |-> FALSE, error |-> "Out of stock"],
      [json |-> TRUE, success |-> FALSE, error |-> ""],
      [json |-> FALSE, success |-> FALSE, error |-> ""] }

\* no body has been read
NoBody == [json |-> FALSE, success |-> FALSE, error |-> "no body"]

\* the outcome of an attempt, kept as history
NoOutcome == [kind |-> "none", status |-> 0, name |-> "none"]
ResponseOutcome(status) == [kind |-> "response", status |-> status, name |-> "none"]
RejectOutcome(raw) == [kind |-> "reject", status |-> 0, name |-> raw.name]

NoResult == [kind |-> "none", value |-> 0, error |-> NoError]
ValueResult(v) == [kind |-> "value", value |-> v, error |-> NoError]
ErrorResult(e) == [kind |-> "error", value |-> 0, error |-> e]

\* history: the outcome is a failure the retry policy is meant for, a
\* response with status >= 500 or no response at all
RetriableOutcome(outcome) ==
    \/ outcome.kind = "reject"
    \/ outcome.kind = "response" /\ outcome.status >= 500

\* options.headers, of type HeadersInit: absent, a plain object, a Headers
\* instance or an array of [name, value] pairs; `entries` are the headers
\* the caller supplies, in order
NoHeaders == [kind |-> "undefined", entries |-> <<>>]
PlainHeaders(entries) == [kind |-> "object", entries |-> entries]
HeadersInstance(entries) == [kind |-> "Headers", entries |-> entries]
HeaderPairs(entries) == [kind |-> "array", entries |-> entries]

\* lines 72-73: the default headers
DefaultHeaders ==
    << <<"Content-Type", "application/json">>,
       <<"Accept", "application/json">> >>

\* line 74: the own enumerable properties that `...options.headers` copies:
\* the entries of a plain object; none of undefined and none of a Headers
\* instance, which keeps its list in an internal slot; the indices of an
\* array, each with the pair it holds
SpreadHeaders(headers) ==
    CASE headers.kind = "object" -> headers.entries
      [] headers.kind = "array" ->
            [i \in 1..Len(headers.entries) |->
                <<ToString(i - 1),
                  headers.entries[i][1] \o "," \o headers.entries[i][2]>>]
      [] OTHER -> <<>>

\* an object literal sets property `key`: a key the object has keeps its
\* place and takes the new value, another key is added at the end.  Keys
\* are compared as they are written
SetProperty(object, key, value) ==
    IF \E i \in 1..Len(object) : object[i][1] = key
    THEN [i \in 1..Len(object) |->
             IF object[i][1] = key THEN <<key, value>> ELSE object[i]]
    ELSE Append(object, <<key, value>>)

\* lines 71-75: the object literal { defaults, ...options.headers }
RECURSIVE SetProperties(_, _)
SetProperties(object, entries) ==
    IF entries = <<>> THEN object
    ELSE SetProperties(SetProperty(object, entries[1][1], entries[1][2]),
                       Tail(entries))

\* a header name in lower case, for the names tried: fetch() compares
\* header names without regard to case
LowerCase(name) ==
    CASE name = "Content-Type" -> "content-type"
      [] name = "Accept" -> "accept"
      [] name = "X-Trace" -> "x-trace"
      [] OTHER -> name

\* the texts of a sequence joined by ", "
RECURSIVE JoinValues(_)
JoinValues(texts) ==
    IF texts = <<>> THEN ""
    ELSE texts[1] \o (IF Len(texts) > 1 THEN ", " \o JoinValues(Tail(texts))
                      ELSE "")

\* the value of header `name` in the list fetch() fills from the object:
\* every property is appended, and the values appended under one name,
\* whatever its case, are combined
CombinedValue(object, name) ==
    LET same == SelectSeq(object, LAMBDA e : LowerCase(e[1]) = name) IN
    JoinValues([i \in 1..Len(same) |-> same[i][2]])

\* lines 68-76: the headers fetch() sends for the `headers` object it is
\* given: the set of <<name, value>> with the names in lower case
FetchHeaders(headers) ==
    LET object == SetProperties(DefaultHeaders, SpreadHeaders(headers)) IN
    { <<LowerCase(object[i][1]), CombinedValue(object, LowerCase(object[i][1]))>> :
        i \in 1..Len(object) }

\* a request that has not been issued
IdleReq ==
    [pc |-> "idle", owner |-> "none", slot |-> "none", run |-> 0,
     cfg |-> DEFAULT_RETRY_CONFIG,
     attempt |-> 0, lastError |-> NoError,
     attempts |-> 0, failures |-> 0, waits |-> <<>>, lastOutcome |-> NoOutcome,
     status |-> 0, raised |-> NoError, result |-> NoResult,
     body |-> NoBody,
     signalAborted |-> FALSE, attemptsAtAbort |-> 0, waitsAtAbort |-> 0,
     api |-> "none", arg |-> <<>>, searchParams |-> <<>>, endpoint |-> "",
     caught |-> NoError, message |-> "none",
     headers |-> NoHeaders, sent |-> <<>>]

\* mutant of ResponseOk: only status 200 counts as ok
ResponseOkOnly200(status) == status = 200

\* response.ok: status in the range 200-299
ResponseOk(status) == status >= 200 /\ status <= 299

\* the JavaScript truthiness of an optional numeric status
Truthy(status) == status /= UndefinedStatus /\ status /= 0

\* mutant of ThrownForStatus: status 500 is taken for a client error
ThrownForStatusUpTo500(status) ==
    IF status <= 500
    THEN APIError("HTTP error! status: " \o ToString(status), status,
                  "HTTP_ERROR", "none")
    ELSE APIError("Server error: " \o ToString(status), status,
                  "SERVER_ERROR", "none")

\* lines 80-99: the error the try block throws for a response that is not ok
ThrownForStatus(status) ==
    IF status < 500
    THEN APIError("HTTP error! status: " \o ToString(status), status,
                  "HTTP_ERROR", "none")
    ELSE APIError("Server error: " \o ToString(status), status,
                  "SERVER_ERROR", "none")

\* mutant of NonRetriable: the shortcut for non-retriable errors is missing
NonRetriableNever(error) == FALSE

\* line 105: errors that are re-raised without a retry
NonRetriable(error) ==
    InstanceOfAPIError(error) /\ Truthy(error.status) /\ error.status < 500

\* mutant of IsNetworkFailure: an AbortError is not taken for one
IsNetworkFailureNoAbort(error) ==
    error.cls = "TypeError" \/ error.code = "NETWORK_ERR"

\* lines 110-112: errors taken for network failures
IsNetworkFailure(error) ==
    \/ error.cls = "TypeError"
    \/ error.name = "AbortError"
    \/ error.code = "NETWORK_ERR"

\* lines 102-114: the value of lastError after the catch block classified
\* the error
Classify(error) ==
    IF NonRetriable(error) THEN error
    ELSE IF IsNetworkFailure(error)
    THEN NetworkError("Unable to connect to the server. Please check your internet connection.",
                      error.name)
    ELSE error

\* mutant of IsLastAttempt: the loop gives up one attempt early
IsLastAttemptOneEarly(attempt, config) == attempt >= config.maxRetries - 1

\* line 117: the attempt was the last one the policy permits
IsLastAttempt(attempt, config) == attempt = config.maxRetries

\* mutant of ApiCatch: every error is re-raised as it is
ApiCatchRethrow(error) == error

\* lines 150-160: apiRequest's catch: typed errors pass, others are wrapped
ApiCatch(error) ==
    IF InstanceOfAPIError(error) THEN error
    ELSE APIError("An unexpected error occurred", 500, "UNKNOWN_ERROR", error.name)

\* mutant of CatchBlock: the backoff wait is taken before every re-raise too
CatchBlockWaitsBeforeRaise(rq, error, outcome) ==
    IF NonRetriable(error) \/ IsLastAttempt(rq.attempt, rq.cfg)
    THEN [rq EXCEPT !.pc = "done",
                    !.lastOutcome = outcome,
                    !.failures = IF RetriableOutcome(outcome) THEN @ + 1 ELSE @,
                    !.attempt = 0, !.lastError = NoError,
                    !.raised = Classify(error),
                    !.result = ErrorResult(ApiCatch(Classify(error))),
                    !.waits = Append(@, calculateDelay(rq.attempt, rq.cfg))]
    ELSE [rq EXCEPT !.pc = "sleep",
                    !.lastOutcome = outcome,
                    !.failures = IF RetriableOutcome(outcome) THEN @ + 1 ELSE @,
                    !.lastError = Classify(error),
                    !.waits = Append(@, calculateDelay(rq.attempt, rq.cfg))]

\* lines 101-125: the catch block of fetchWithRetry on a failed attempt of
\* request rq: re-raise (through apiRequest's catch) or start the backoff wait
CatchBlock(rq, error, outcome) ==
    IF NonRetriable(error) \/ IsLastAttempt(rq.attempt, rq.cfg)
    THEN [rq EXCEPT !.pc = "done",
                    !.lastOutcome = outcome,
                    !.failures = IF RetriableOutcome(outcome) THEN @ + 1 ELSE @,
                    !.attempt = 0, !.lastError = NoError,
                    !.raised = Classify(error),
                    !.result = ErrorResult(ApiCatch(Classify(error)))]
    ELSE [rq EXCEPT !.pc = "sleep",
                    !.lastOutcome = outcome,
                    !.failures = IF RetriableOutcome(outcome) THEN @ + 1 ELSE @,
                    !.lastError = Classify(error),
                    !.waits = Append(@, calculateDelay(rq.attempt, rq.cfg))]

\* lines 62-76: the loop body starts an attempt: fetch() is called.  `sent`
\* keeps the headers of each attempt (history)
StartAttempt(rq, attempt) ==
    [rq EXCEPT !.pc = "fetch", !.attempt = attempt, !.attempts = @ + 1,
               !.sent = Append(@, FetchHeaders(rq.headers))]

\* lines 132-136: apiRequest(endpoint, options) calls fetchWithRetry, which
\* calls fetch() for attempt 0
StartRequest(owner, slot, run, config) ==
    StartAttempt([IdleReq EXCEPT !.owner = owner, !.slot = slot,
                                 !.run = run, !.cfg = config], 0)

\* lines 78-99: fetch() resolved with a response of the given status
OnResponse(rq, status) ==
    IF ResponseOk(status)
    THEN [rq EXCEPT !.pc = "json", !.lastOutcome = ResponseOutcome(status),
                    !.attempt = 0, !.lastError = NoError,
                    !.status = status]
    ELSE CatchBlock(rq, ThrownForStatus(status), ResponseOutcome(status))

\* lines 68, 101: fetch() rejected with a raw error
OnReject(rq, raw) == CatchBlock(rq, raw, RejectOutcome(raw))

\* lines 124, 62: the backoff wait is over, the loop goes to the next attempt
OnSleepDone(rq) == StartAttempt(rq, rq.attempt + 1)

\* mutant of EnvelopeError: the server's message is ignored and the status
\* is a fixed 500
EnvelopeErrorGeneric(body, status) ==
    APIError("API request failed", 500, "API_ERROR", "none")

\* lines 139-145: the error thrown for an envelope whose success is falsy:
\* `data.error || 'API request failed'` with the status of the response
EnvelopeError(body, status) ==
    APIError(IF body.error /= "" THEN body.error ELSE "API request failed",
             status, "API_ERROR", "none")

\* lines 137-160: response.json() settled with the given body; `value` is
\* the payload (data.data) of a successful envelope
OnBody(rq, body, value) ==
    [rq EXCEPT !.pc = "done",
               !.body = body,
               !.result =
                   IF ~body.json THEN ErrorResult(ApiCatch(SyntaxErrorRaw))
                   ELSE IF ~body.success
                   THEN ErrorResult(ApiCatch(EnvelopeError(body, rq.status)))
                   ELSE ValueResult(value)]

\* the caller aborts the signal it passed in options.signal.  Lines 68-70
\* give fetch() `signal: controller.signal` after `...options`, so the
\* caller's signal is replaced and reaches nothing: only the flag changes
OnCallerAbort(rq) ==
    [rq EXCEPT !.signalAborted = TRUE, !.attemptsAtAbort = rq.attempts,
               !.waitsAtAbort = Len(rq.waits)]

----------------------------------------------------------------------------
(* Error messages: src/lib/api.ts 320-347 *)

\* a state of type `string | null` holding null
NullStr == "null"
\* a state of type `T | null` holding null; a loaded value is the id of the
\* request whose response carried it
NullData == 0

\* mutant of getErrorMessage: every error is shown with its own message
getErrorMessageOwn(error) ==
    IF error.cls /= "none" THEN error.message
    ELSE "An unexpected error occurred. Please try again."

\* src/lib/api.ts 320-347: getErrorMessage(error); a value that is not an
\* Error has the class "none"
getErrorMessage(error) ==
    IF error.cls = "NetworkError"
    THEN "Unable to connect to the server. Please check your internet connection and try again."
    ELSE IF InstanceOfAPIError(error)
    THEN CASE error.code = "HTTP_ERROR" ->
                 IF error.status = 404
                 THEN "The requested resource was not found."
                 ELSE IF error.status = 400
                 THEN "Invalid request. Please check your input and try again."
                 ELSE error.message
           [] error.code = "SERVER_ERROR" ->
                 "Server error. Please try again in a few moments."
           [] OTHER -> error.message
    ELSE IF error.cls /= "none" THEN error.message
    ELSE "An unexpected error occurred. Please try again."

\* src/lib/api.ts 349-359: isRetriableError(error)
isRetriableError(error) ==
    IF error.cls = "NetworkError" THEN TRUE
    ELSE IF InstanceOfAPIError(error)
    THEN \/ error.code = "SERVER_ERROR"
         \/ error.status = UndefinedStatus
         \/ error.status >= 500
    ELSE FALSE

\* a value that is not an Error, as `throw "text"` raises
NotAnError == NoError

\* new Error(message)
PlainError(message) ==
    [cls |-> "Error", name |-> "Error", message |-> message,
     status |-> UndefinedStatus, code |-> UndefinedCode,
     originalError |-> "none"]

\* what the code of a caller can throw after a call of apiRequest returned
ThrownValues == {NotAnError, PlainError("boom"), PlainError("")}

\* the catch block of a caller, as in the hooks (globals.css 328-332): it
\* is given the error of the request, or what the caller's own code threw
\* after the request returned, and calls getErrorMessage on it
OnCatch(rq, value) ==
    [rq EXCEPT !.caught = value, !.message = getErrorMessage(value)]

\* the ids of the requests issued so far, and the next free id
Issued == {r \in ReqIds : reqs[r].pc /= "idle"}
NextId == Cardinality(Issued) + 1
Pending == {r \in ReqIds : reqs[r].pc \notin {"idle", "done"}}

----------------------------------------------------------------------------
(* API methods: src/lib/api.ts 249-306 *)

\* the JavaScript values a parameter can hold: undefined, null, a string, a
\* number
JSUndefined == [t |-> "undefined", s |-> "", n |-> 0]
JSNull == [t |-> "null", s |-> "", n |-> 0]
JSStr(s) == [t |-> "string", s |-> s, n |-> 0]
JSNum(n) == [t |-> "number", s |-> "", n |-> n]

\* String(value): the text "undefined" and "null" for the two empty
\* values, a string itself, a number in decimal
String(value) ==
    CASE value.t = "undefined" -> "undefined"
      [] value.t = "null" -> "null"
      [] value.t = "string" -> value.s
      [] value.t = "number" -> ToString(value.n)

\* mutant of Sent: a truthiness test `if (value)`, which drops 0 as well
SentTruthy(value) ==
    \/ value.t = "string" /\ value.s /= ""
    \/ value.t = "number" /\ value.n /= 0

\* lines 255, 273: value !== undefined && value !== null && value !== ''
Sent(value) ==
    value /= JSUndefined /\ value /= JSNull /\ value /= JSStr("")

\* lines 254-258, 272-276: Object.entries(params).forEach appends the
\* entries that pass the test to searchParams, in the order of the object;
\* an object is the sequence of its <<key, value>> entries
RECURSIVE AppendEntries(_)
AppendEntries(entries) ==
    IF entries = <<>> THEN <<>>
    ELSE (IF Sent(entries[1][2])
          THEN << <<entries[1][1], String(entries[1][2])>> >>
          ELSE <<>>) \o AppendEntries(Tail(entries))

\* searchParams.toString(): name=value pairs joined by "&".  The names and
\* values tried hold only letters, digits and "_", which the
\* application/x-www-form-urlencoded serializer leaves as they are
RECURSIVE SearchParamsToString(_)
SearchParamsToString(searchParams) ==
    IF searchParams = <<>> THEN ""
    ELSE searchParams[1][1] \o "=" \o searchParams[1][2]
           \o (IF Len(searchParams) > 1
                THEN "&" \o SearchParamsToString(Tail(searchParams))
                ELSE "")

\* a call of apiRequest(endpoint) made by an API method for `owner`.  The
\* method, its argument and the endpoint it built are history, kept for the
\* calls of a direct caller
ApiCall(owner, run, api, arg, searchParams, endpoint) ==
    IF owner = "caller"
    THEN [StartRequest(owner, "none", run, DEFAULT_RETRY_CONFIG) EXCEPT
            !.api = api, !.arg = arg, !.searchParams = searchParams,
            !.endpoint = endpoint]
    ELSE StartRequest(owner, "none", run, DEFAULT_RETRY_CONFIG)

\* lines 251-262: PantamakAPI.getProducts(params)
getProducts(owner, run, params) ==
    ApiCall(owner, run, "getProducts", params, AppendEntries(params),
            "/products?" \o SearchParamsToString(AppendEntries(params)))

\* lines 269-279: PantamakAPI.getShops(params)
getShops(owner, run, params) ==
    ApiCall(owner, run, "getShops", params, AppendEntries(params),
            "/shops?" \o SearchParamsToString(AppendEntries(params)))

\* line 302: the value { shops: [], products: [], categories: [] }; the
\* payload of a response is the (positive) id of its request
EmptySuggestions == -1

\* mutant of QueryTooShort: only the empty query is too short
QueryTooShortEmptyOnly(query) == Len(query) < 1

\* line 301: query.length < 2
QueryTooShort(query) == Len(query) < 2

\* lines 300-306: PantamakAPI.getSearchSuggestions(query): the empty
\* result at once for a short query, else a request (the queries tried hold
\* only letters, which encodeURIComponent leaves as they are)
getSearchSuggestions(owner, run, query) ==
    IF QueryTooShort(query)
    THEN [IdleReq EXCEPT !.pc = "done", !.owner = owner, !.run = run,
                         !.api = "getSearchSuggestions",
                         !.arg = << <<"query", JSStr(query)>> >>,
                         !.result = ValueResult(EmptySuggestions)]
    ELSE ApiCall(owner, run, "getSearchSuggestions",
                 << <<"query", JSStr(query)>> >>, <<>>,
                 "/search/suggestions?query=" \o query)

\* JSON.stringify of a parameter value: null and strings in their JSON
\* text (the strings tried need no escape), a number in decimal
JSONValue(value) ==
    CASE value.t = "null" -> "null"
      [] value.t = "string" -> "\"" \o value.s \o "\""
      [] value.t = "number" -> ToString(value.n)
      [] OTHER -> ""

\* the members of the mutant of JSONStringify: a member whose value is
\* undefined is written as null
RECURSIVE JSONMembersWithUndefined(_)
JSONMembersWithUndefined(entries) ==
    IF entries = <<>> THEN <<>>
    ELSE << "\"" \o entries[1][1] \o "\":" \o
               (IF entries[1][2] = JSUndefined THEN "null"
                ELSE JSONValue(entries[1][2])) >>
         \o JSONMembersWithUndefined(Tail(entries))

\* the members JSON.stringify writes for an object: "key":value for each
\* entry in the order of the object, the entries whose value is undefined
\* left out
RECURSIVE JSONMembers(_)
JSONMembers(entries) ==
    IF entries = <<>> THEN <<>>
    ELSE (IF entries[1][2] = JSUndefined THEN <<>>
          ELSE << "\"" \o entries[1][1] \o "\":" \o JSONValue(entries[1][2]) >>)
         \o JSONMembers(Tail(entries))

\* the texts of a sequence joined by ","
RECURSIVE JoinComma(_)
JoinComma(texts) ==
    IF texts = <<>> THEN ""
    ELSE texts[1] \o (IF Len(texts) > 1 THEN "," \o JoinComma(Tail(texts))
                      ELSE "")

\* mutant of JSONStringify: the members with an undefined value are written
JSONStringifyWithUndefined(params) ==
    "{" \o JoinComma(JSONMembersWithUndefined(params)) \o "}"

\* lines 336, 412: JSON.stringify(params), the dependency of the fetch
\* callback
JSONStringify(params) == "{" \o JoinComma(JSONMembers(params)) \o "}"

----------------------------------------------------------------------------
(* useProducts: src/app/globals.css 303-354 *)

\* the values of the `params` prop tried; their JSON forms are equal
\* exactly when they are
ParamValues == { << <<"page", JSNum(1)>> >>, << <<"page", JSNum(2)>> >> }

\* the hook after its first render: the useState initial values (307-310).
\* `params` is the object the memoized fetchProducts closes over and `props`
\* the object passed to the latest render (history)
ProductsInit(params, enabled) ==
    [phase |-> "rendered", params |-> params, enabled |-> enabled,
     data |-> NullData, loading |-> enabled, error |-> NullStr,
     ctrl |-> 0, aborted |-> {},
     superseded |-> {}, lastSettled |-> 0, staleError |-> FALSE,
     observed |-> FALSE, retryCalls |-> 0, fetched |-> <<>>,
     props |-> params]

\* a hook whose calls of retry() are observed: retryCalls counts them and
\* `fetched` is the argument of the latest call of the API method (history)
Observed(h) == [h EXCEPT !.observed = TRUE]

\* lines 316-318, 347-349: abortControllerRef.current.abort().  The
\* controller's signal is passed to nothing (line 326 calls
\* getProducts(params) alone), so only the controller's own flag changes
AbortCurrent(h) ==
    IF h.ctrl /= 0 THEN [h EXCEPT !.aborted = @ \cup {h.ctrl}] ELSE h

\* lines 313-326: fetchProducts up to its await; r is the id of the request
\* that getProducts starts and of the controller created for it
ProductsFetchStart(h, r, pending) ==
    [AbortCurrent(h) EXCEPT !.ctrl = r, !.loading = TRUE, !.error = NullStr,
                            !.superseded = @ \cup pending,
                            !.fetched = IF h.observed THEN h.params ELSE @]

\* mutant of ProductsFetchSettle: setLoading(false) runs at the end of the
\* try block, not in a finally
ProductsFetchSettleNoFinally(h, r, result) ==
    IF h.phase = "unmounted" THEN [h EXCEPT !.lastSettled = r]
    ELSE IF result.kind = "value"
    THEN [h EXCEPT !.data = result.value, !.loading = FALSE,
                   !.lastSettled = r]
    ELSE IF result.error.name /= "AbortError"
    THEN [h EXCEPT !.error = getErrorMessage(result.error),
                   !.lastSettled = r,
                   !.staleError = @ \/ (r \in h.aborted)]
    ELSE [h EXCEPT !.lastSettled = r]

\* lines 327-335: fetchProducts after its await, for request r settled with
\* `result`.  React drops the state updates of an unmounted component
ProductsFetchSettle(h, r, result) ==
    IF h.phase = "unmounted" THEN [h EXCEPT !.lastSettled = r]
    ELSE IF result.kind = "value"
    THEN [h EXCEPT !.data = result.value, !.loading = FALSE,
                   !.lastSettled = r]
    ELSE IF result.error.name /= "AbortError"
    THEN [h EXCEPT !.error = getErrorMessage(result.error),
                   !.loading = FALSE,
                   !.lastSettled = r,
                   !.staleError = @ \/ (r \in h.aborted)]
    ELSE [h EXCEPT !.loading = FALSE, !.lastSettled = r]

----------------------------------------------------------------------------
(* useShops: src/app/globals.css 390-423 *)

\* the hook after its first render: the useState initial values (394-396).
\* The hook holds no AbortController.  `latest` is the id of the request of
\* its most recent fetch and `staleWrite` tells that the continuation of
\* another fetch than that one has set the state (both history)
ShopsInit(params, enabled) ==
    [phase |-> "rendered", params |-> params, enabled |-> enabled,
     data |-> NullData, loading |-> enabled, error |-> NullStr,
     latest |-> 0, staleWrite |-> FALSE,
     observed |-> FALSE, retryCalls |-> 0, fetched |-> <<>>]

\* lines 401-405: fetchShops up to its await; r is the id of the request
\* that getShops starts
ShopsFetchStart(h, r) ==
    [h EXCEPT !.loading = TRUE, !.error = NullStr, !.latest = r,
              !.fetched = IF h.observed THEN h.params ELSE @]

\* lines 405-411: fetchShops after its await, for request r settled with
\* `result`
ShopsFetchSettle(h, r, result) ==
    IF result.kind = "value"
    THEN [h EXCEPT !.data = result.value, !.loading = FALSE,
                   !.staleWrite = @ \/ r /= h.latest]
    ELSE [h EXCEPT !.error = getErrorMessage(result.error),
                   !.loading = FALSE,
                   !.staleWrite = @ \/ r /= h.latest]

\* a hook that is not part of the page
Absent(h) == [h EXCEPT !.phase = "absent"]

\* the page holds one useProducts instance at most
NoSecondInstance == hq = Absent(ProductsInit(<< <<"page", JSNum(1)>> >>, TRUE))

----------------------------------------------------------------------------
(* useSearchSuggestions: src/app/globals.css 490-541 *)

\* the values of the `query` prop tried
Queries == {"a", "ab"}

\* the hook after its first render: the useState initial values (491-494)
SuggestionsInit(query) ==
    [phase |-> "rendered", query |-> query, timers |-> {},
     suggestions |-> NullData, loading |-> FALSE, error |-> NullStr,
     ctrl |-> 0, aborted |-> {},
     changes |-> 0, calls |-> 0, callsSinceChange |-> 0,
     requestsSinceChange |-> 0,
     lastCall |-> "", lastSettled |-> 0, staleError |-> FALSE]

\* lines 527-529: the effect arms a debounce timer that will call
\* fetchSuggestions with the query the effect saw; a pending timer is named
\* by that query
ArmTimer(h, query) == [h EXCEPT !.timers = @ \cup {query}]

\* mutant of SuggestionsCleanup: clearTimeout is forgotten
SuggestionsCleanupKeepsTimer(h) == AbortCurrent(h)

\* lines 531-537: the effect's cleanup: clearTimeout of the timer the effect
\* armed, then abort the controller of the ongoing request (a flag no
\* request reads)
SuggestionsCleanup(h) == [AbortCurrent(h) EXCEPT !.timers = @ \ {h.query}]

\* line 497: searchQuery.length < 2
TooShort(searchQuery) == Len(searchQuery) < 2

\* lines 497-500: fetchSuggestions with a query shorter than 2 characters
SuggestionsShort(h, searchQuery) ==
    [h EXCEPT !.suggestions = NullData, !.calls = @ + 1,
              !.callsSinceChange = @ + 1, !.lastCall = searchQuery]

\* lines 502-513: fetchSuggestions up to its await; r is the id of the
\* request getSearchSuggestions starts
SuggestionsFetchStart(h, r, searchQuery) ==
    [AbortCurrent(h) EXCEPT !.ctrl = r, !.loading = TRUE, !.error = NullStr,
                            !.calls = @ + 1,
                            !.callsSinceChange = @ + 1,
                            !.requestsSinceChange = @ + 1,
                            !.lastCall = searchQuery]

\* mutant of SuggestionsFetchSettle: a failure leaves the suggestions as
\* they were
SuggestionsFetchSettleKeepsData(h, r, result) ==
    IF h.phase = "unmounted" THEN [h EXCEPT !.lastSettled = r]
    ELSE IF result.kind = "value"
    THEN [h EXCEPT !.suggestions = result.value, !.loading = FALSE,
                   !.lastSettled = r]
    ELSE IF result.error.name /= "AbortError"
    THEN [h EXCEPT !.error = getErrorMessage(result.error),
                   !.loading = FALSE,
                   !.lastSettled = r,
                   !.staleError = @ \/ (r \in h.aborted)]
    ELSE [h EXCEPT !.loading = FALSE, !.lastSettled = r]

\* lines 514-523: fetchSuggestions after its await
SuggestionsFetchSettle(h, r, result) ==
    IF h.phase = "unmounted" THEN [h EXCEPT !.lastSettled = r]
    ELSE IF result.kind = "value"
    THEN [h EXCEPT !.suggestions = result.value, !.loading = FALSE,
                   !.lastSettled = r]
    ELSE IF result.error.name /= "AbortError"
    THEN [h EXCEPT !.error = getErrorMessage(result.error),
                   !.suggestions = NullData,
                   !.loading = FALSE,
                   !.lastSettled = r,
                   !.staleError = @ \/ (r \in h.aborted)]
    ELSE [h EXCEPT !.loading = FALSE, !.lastSettled = r]

----------------------------------------------------------------------------
(* useInitialData: src/app/globals.css 544-611 *)

Slots == <<"products", "categories", "cities">>

\* the hook after its first render: the useState initial values (545-549)
InitialDataInit ==
    [phase |-> "rendered", loading |-> TRUE, error |-> NullStr,
     products |-> NullData, categories |-> NullData, cities |-> NullData,
     runs |-> 0]

\* lines 552-561: fetchInitialData up to its await of Promise.allSettled
InitialDataStart(h) ==
    [h EXCEPT !.loading = TRUE, !.error = NullStr, !.runs = @ + 1]

\* lines 563-576: a fulfilled fetch sets its resource, a rejected one
\* leaves it as it was
Fulfilled(old, result) == IF result.kind = "value" THEN result.value ELSE old

\* mutant of AllRejected: one rejected fetch is enough
AnyRejected(rp, rc, rt) ==
    rp.kind = "error" \/ rc.kind = "error" \/ rt.kind = "error"

\* lines 579-585: the overall error is set when all three were rejected
AllRejected(rp, rc, rt) ==
    rp.kind = "error" /\ rc.kind = "error" /\ rt.kind = "error"

\* lines 563-591: fetchInitialData after Promise.allSettled resolved with
\* the results of the products, categories and cities fetches
InitialDataSettle(h, rp, rc, rt) ==
    [h EXCEPT !.products = Fulfilled(@, rp),
              !.categories = Fulfilled(@, rc),
              !.cities = Fulfilled(@, rt),
              !.error = IF AllRejected(rp, rc, rt)
                        THEN "Unable to load data. Please check your internet connection and try again."
                        ELSE @,
              !.loading = FALSE]

----------------------------------------------------------------------------
(* The storefront page PantamakBrowser: src/app/page.tsx 56-200 *)

\* the values tried for the filters; the first of each is the useState
\* initial value (lines 61-65)
SearchQueries == {"", "ab"}
Categories == {"all", "food"}
Cities == {"all", "Douala"}
PriceRanges == {<<0, 50000>>, <<0, 1000>>}
SortOrders == {"newest", "price_asc"}

\* lines 61-66: the filter states and the current page after the first
\* render; `last` names the handler that ran last and `handled` counts the
\* handlers that ran (history)
BrowserInit ==
    [phase |-> "rendered", searchQuery |-> "", selectedCategory |-> "all",
     selectedCity |-> "all", priceRange |-> <<0, 50000>>,
     sortBy |-> "newest", currentPage |-> 1, last |-> "none", handled |-> 0]

\* a page that is not the storefront page
NoBrowser == browser = [BrowserInit EXCEPT !.phase = "absent"]

\* lines 73-82: apiParams, built at every render
apiParams(b) ==
    << <<"page", JSNum(b.currentPage)>>, <<"per_page", JSNum(20)>> >>
    \o (IF b.searchQuery /= "" THEN << <<"query", JSStr(b.searchQuery)>> >>
        ELSE <<>>)
    \o (IF b.selectedCategory /= "all"
        THEN << <<"category", JSStr(b.selectedCategory)>> >> ELSE <<>>)
    \o (IF b.selectedCity /= "all"
        THEN << <<"city", JSStr(b.selectedCity)>> >> ELSE <<>>)
    \o << <<"min_price", JSNum(b.priceRange[1])>>,
          <<"max_price", JSNum(b.priceRange[2])>>,
          <<"sort_by", JSStr(b.sortBy)>> >>

\* mutant of ResetDeps: sortBy is missing from the dependencies
ResetDepsWithoutSort(b) ==
    <<b.searchQuery, b.selectedCategory, b.selectedCity, b.priceRange>>

\* line 132: the dependencies of the effect that resets the page
ResetDeps(b) ==
    <<b.searchQuery, b.selectedCategory, b.selectedCity, b.priceRange,
      b.sortBy>>

\* the hook and the requests while a task of the page runs; `ok` is false
\* when the task needs more request ids than the model has
Running(h, rs) == [h |-> h, rs |-> rs, ok |-> TRUE]

\* lines 85-90 and globals.css 312-351: a render of the page calls
\* useProducts(params); when JSON.stringify(params) changed, the effect's
\* cleanup aborts the controller and the effect calls the new
\* fetchProducts, which starts a request
RenderProducts(s, params) ==
    IF JSONStringify(params) = JSONStringify(s.h.params)
    THEN [s EXCEPT !.h = [s.h EXCEPT !.props = params]]
    ELSE LET id == Cardinality({r \in ReqIds : s.rs[r].pc /= "idle"}) + 1
             pending == {r \in ReqIds : /\ s.rs[r].owner = "useProducts"
                                        /\ s.rs[r].pc \notin {"idle", "done"}}
         IN IF id > MaxReqs THEN [s EXCEPT !.ok = FALSE]
            ELSE [h |-> ProductsFetchStart(
                           [AbortCurrent(s.h) EXCEPT !.params = params,
                                                     !.props = params],
                           id, pending),
                  rs |-> [s.rs EXCEPT ![id] =
                             getProducts("useProducts", id, params)],
                  ok |-> s.ok]

\* lines 129-132: the effect that resets the page runs after a render in
\* which one of its dependencies changed: setCurrentPage(1)
ResetPage(before, b) ==
    IF ResetDeps(b) /= ResetDeps(before) THEN [b EXCEPT !.currentPage = 1]
    ELSE b

\* a handler took the page from state `before` to state b: the page
\* renders with b, the effects of that render run, and the page renders
\* again when the reset effect changed currentPage
Rendered(before, b) ==
    LET first == RenderProducts(Running(hp, reqs), apiParams(b))
        settled == ResetPage(before, b)
        second == RenderProducts(first, apiParams(settled)) IN
    /\ before.handled < MaxChanges
    /\ second.ok
    /\ browser' = [settled EXCEPT !.handled = before.handled + 1]
    /\ hp' = second.h
    /\ reqs' = second.rs
    /\ UNCHANGED <<hsh, hs, hi, hq>>

\* the first render of the page and the effects after it: useProducts
\* fetches with the initial apiParams (globals.css 342-343) and the reset
\* effect sets the page it already has
BrowserMount ==
    /\ browser.phase = "rendered"
    /\ hp.phase = "rendered"
    /\ NextId <= MaxReqs
    /\ browser' = [browser EXCEPT !.phase = "mounted", !.last = "mount",
                                  !.currentPage = 1]
    /\ hp' = ProductsFetchStart(
                 [hp EXCEPT !.phase = "mounted"], NextId,
                 {r \in Pending : reqs[r].owner = "useProducts"})
    /\ reqs' = [reqs EXCEPT ![NextId] =
                   getProducts("useProducts", NextId, hp.params)]
    /\ UNCHANGED <<hsh, hs, hi, hq>>

\* lines 160-161, 698: handleSearchChange(value), and the click on a
\* suggestion, call setSearchQuery
SearchChanges(value) ==
    /\ browser.phase = "mounted" /\ value /= browser.searchQuery
    /\ Rendered(browser, [browser EXCEPT !.searchQuery = value,
                                          !.last = "setSearchQuery"])

\* line 432: the category select calls setSelectedCategory
CategoryChanges(value) ==
    /\ browser.phase = "mounted" /\ value /= browser.selectedCategory
    /\ Rendered(browser, [browser EXCEPT !.selectedCategory = value,
                                          !.last = "setSelectedCategory"])

\* line 451: the city select calls setSelectedCity
CityChanges(value) ==
    /\ browser.phase = "mounted" /\ value /= browser.selectedCity
    /\ Rendered(browser, [browser EXCEPT !.selectedCity = value,
                                          !.last = "setSelectedCity"])

\* line 471: the price slider calls setPriceRange
PriceRangeChanges(value) ==
    /\ browser.phase = "mounted" /\ value /= browser.priceRange
    /\ Rendered(browser, [browser EXCEPT !.priceRange = value,
                                          !.last = "setPriceRange"])

\* line 813: the sort select calls setSortBy
SortChanges(value) ==
    /\ browser.phase = "mounted" /\ value /= browser.sortBy
    /\ Rendered(browser, [browser EXCEPT !.sortBy = value,
                                          !.last = "setSortBy"])

\* lines 177-180, 901-935: handlePageChange(page), called by the
\* pagination controls, which are rendered once productsData has pages and
\* are disabled while productsLoading
HandlePageChange(page) ==
    /\ browser.phase = "mounted" /\ page /= browser.currentPage
    /\ hp.data /= NullData /\ ~hp.loading
    /\ Rendered(browser, [browser EXCEPT !.currentPage = page,
                                          !.last = "handlePageChange"])

\* lines 182-189: clearFilters
ClearFilters ==
    /\ browser.phase = "mounted"
    /\ Rendered(browser, [BrowserInit EXCEPT !.phase = "mounted",
                                             !.last = "clearFilters",
                                             !.handled = browser.handled])

----------------------------------------------------------------------------
(* The continuation of the code that awaits a request *)

\* the request of run `run` of useInitialData that fetches `slot`
RunRequest(rs, run, slot) ==
    CHOOSE r \in ReqIds :
        rs[r].owner = "useInitialData" /\ rs[r].run = run /\ rs[r].slot = slot

\* mutant of RunSettled: the run goes on as soon as one fetch has settled
RunSettledAny(rs, run) ==
    \E i \in 1..3 : rs[RunRequest(rs, run, Slots[i])].pc = "done"

\* Promise.allSettled of a run resolves when its three fetches have settled
RunSettled(rs, run) ==
    \A i \in 1..3 : rs[RunRequest(rs, run, Slots[i])].pc = "done"

\* a settled request of a hook keeps its result; the locals and the history
\* of its attempts are dropped with the frame of the call
Released(n) ==
    IF n.pc = "done" /\ n.owner /= "caller"
    THEN [IdleReq EXCEPT !.pc = "done", !.owner = n.owner, !.slot = n.slot,
                         !.run = n.run, !.result = n.result]
    ELSE n

\* request r took a step to the record n: when the step settled the
\* request, the code awaiting it runs in the same task
Step(r, n) ==
    LET rs == [reqs EXCEPT ![r] = Released(n)] IN
    /\ reqs' = rs
    /\ IF n.pc /= "done" THEN UNCHANGED <<hp, hsh, hs, hi, hq, browser>>
       ELSE CASE n.owner = "useProducts" ->
                   /\ hp' = ProductsFetchSettle(hp, r, n.result)
                   /\ UNCHANGED <<hsh, hs, hi, hq, browser>>
              [] n.owner = "useProducts#2" ->
                   /\ hq' = ProductsFetchSettle(hq, r, n.result)
                   /\ UNCHANGED <<hp, hsh, hs, hi, browser>>
              [] n.owner = "useShops" ->
                   /\ hsh' = ShopsFetchSettle(hsh, r, n.result)
                   /\ UNCHANGED <<hp, hs, hi, hq, browser>>
              [] n.owner = "useSearchSuggestions" ->
                   /\ hs' = SuggestionsFetchSettle(hs, r, n.result)
                   /\ UNCHANGED <<hp, hsh, hi, hq, browser>>
              [] n.owner = "useInitialData" ->
                   /\ hi' = IF RunSettled(rs, n.run)
                            THEN InitialDataSettle(hi,
                                     rs[RunRequest(rs, n.run, "products")].result,
                                     rs[RunRequest(rs, n.run, "categories")].result,
                                     rs[RunRequest(rs, n.run, "cities")].result)
                            ELSE hi
                   /\ UNCHANGED <<hp, hsh, hs, hq, browser>>
              [] OTHER -> UNCHANGED <<hp, hsh, hs, hi, hq, browser>>

----------------------------------------------------------------------------
(* The environment of a request: network, timers, body *)

\* fetch() resolves with a response
FetchResponds(r, status) ==
    /\ reqs[r].pc = "fetch"
    /\ Step(r, OnResponse(reqs[r], status))

\* fetch() rejects: the transport failed
FetchRejects(r, raw) ==
    /\ reqs[r].pc = "fetch"
    /\ Step(r, OnReject(reqs[r], raw))

\* lines 65-66: the 30 second timer fires first and aborts the attempt's
\* own controller, so fetch() rejects with an AbortError
FetchTimesOut(r) ==
    /\ reqs[r].pc = "fetch"
    /\ Step(r, OnReject(reqs[r], AbortErrorRaw))

\* line 124: the backoff wait is over
BackoffElapses(r) ==
    /\ reqs[r].pc = "sleep"
    /\ Step(r, OnSleepDone(reqs[r]))

\* line 137: the body of the ok response has been read
BodyArrives(r, body) ==
    /\ reqs[r].pc = "json"
    /\ Step(r, OnBody(reqs[r], body, r))

\* a caller of apiRequest that passed options.signal aborts it while the
\* request is in flight
CallerAborts(r) ==
    /\ reqs[r].owner = "caller"
    /\ reqs[r].pc \notin {"idle", "done"}
    /\ ~reqs[r].signalAborted
    /\ reqs' = [reqs EXCEPT ![r] = OnCallerAbort(reqs[r])]
    /\ UNCHANGED <<hp, hsh, hs, hi, hq, browser>>

\* a caller calls apiRequest; fetchWithRetry runs under `config`.  Calls
\* share no state, so a behaviour follows one of them
CallApiRequest(config) ==
    /\ Issued = {}
    /\ reqs' = [reqs EXCEPT ![1] = StartRequest("caller", "none", 0, config)]
    /\ UNCHANGED <<hp, hsh, hs, hi, hq, browser>>

RequestStep ==
    \E r \in ReqIds :
        \/ \E status \in Statuses : FetchResponds(r, status)
        \/ \E raw \in TransportErrors : FetchRejects(r, raw)
        \/ FetchTimesOut(r)
        \/ BackoffElapses(r)
        \/ \E body \in Bodies : BodyArrives(r, body)

\* the answers tried for the requests of a hook
HookStatuses == {200, 404, 500}
HookBodies == {b \in Bodies : b.json /\ (b.success \/ b.error /= "")}

HookRequestStep ==
    \E r \in ReqIds :
        \/ \E status \in HookStatuses : FetchResponds(r, status)
        \/ FetchTimesOut(r)
        \/ BackoffElapses(r)
        \/ \E body \in HookBodies : BodyArrives(r, body)

\* a network that answers every attempt with a success or a client error,
\* so that a request ends at its first attempt
SettlingRequestStep ==
    \E r \in ReqIds :
        \/ \E status \in {200, 404} : FetchResponds(r, status)
        \/ \E body \in HookBodies : BodyArrives(r, body)

----------------------------------------------------------------------------
(* Spec: one call of apiRequest under any of the policies *)

InitReqs == reqs = [r \in ReqIds |-> IdleReq]

Init ==
    /\ InitReqs
    /\ hp = ProductsInit(<< <<"page", JSNum(1)>> >>, TRUE)
    /\ hsh = ShopsInit(<< <<"page", JSNum(1)>> >>, TRUE)
    /\ hs = SuggestionsInit("a")
    /\ hi = InitialDataInit
    /\ NoSecondInstance
    /\ NoBrowser

Next ==
    \/ \E config \in Policies : CallApiRequest(config)
    \/ RequestStep
    \/ \E r \in ReqIds : CallerAborts(r)

Spec == Init /\ [][Next]_vars

----------------------------------------------------------------------------
(* SpecMessages: one call of apiRequest by a caller whose catch block     *)
(* turns what it caught into a message with getErrorMessage               *)

\* the catch block of the caller of request r runs
CallerCatches(r) ==
    /\ reqs[r].owner = "caller" /\ reqs[r].pc = "done"
    /\ reqs[r].message = "none"
    /\ \E value \in (IF reqs[r].result.kind = "error"
                      THEN {reqs[r].result.error} ELSE ThrownValues) :
           reqs' = [reqs EXCEPT ![r] = OnCatch(reqs[r], value)]
    /\ UNCHANGED <<hp, hsh, hs, hi, hq, browser>>

NextMessages ==
    \/ \E config \in Policies : CallApiRequest(config)
    \/ RequestStep
    \/ \E r \in ReqIds : CallerCatches(r)

SpecMessages == Init /\ [][NextMessages]_vars

----------------------------------------------------------------------------
(* SpecHeaders: one call of apiRequest(endpoint, options) whose options   *)
(* carry headers                                                            *)

\* the values of options.headers tried
HeaderInputs ==
    { NoHeaders,
      PlainHeaders(<< <<"Accept", "text/csv">> >>),
      PlainHeaders(<< <<"X-Trace", "1">> >>),
      PlainHeaders(<< <<"content-type", "text/plain">> >>),
      HeadersInstance(<< <<"Accept", "text/csv">> >>),
      HeaderPairs(<< <<"Accept", "text/csv">> >>) }

\* lines 132-136: a caller calls apiRequest(endpoint, {headers})
CallApiRequestWithHeaders(headers) ==
    /\ Issued = {}
    /\ reqs' = [reqs EXCEPT ![1] =
                   StartAttempt([IdleReq EXCEPT !.owner = "caller",
                                                !.headers = headers], 0)]
    /\ UNCHANGED <<hp, hsh, hs, hi, hq, browser>>

NextHeaders ==
    \/ \E headers \in HeaderInputs : CallApiRequestWithHeaders(headers)
    \/ RequestStep

SpecHeaders == Init /\ [][NextHeaders]_vars

----------------------------------------------------------------------------
(* SpecProducts: one useProducts instance and the requests it issues *)

\* the requests of a hook that are in flight
PendingOf(owner) == {r \in Pending : reqs[r].owner = owner}

\* mutant of FetchSkipped: a fetch is also skipped while one is loading
FetchSkippedWhileLoading(h) == ~h.enabled \/ h.loading

\* lines 313, 398: `if (!enabled) return;`
FetchSkipped(h) == ~h.enabled

\* history: one more call of retry(), counted on an observed hook
RetryCalled(h) ==
    IF h.observed THEN [h EXCEPT !.retryCalls = @ + 1] ELSE h

\* fetchProducts is called with the hook in state h (lines 312-326): it
\* returns at once when disabled, else starts a request
CallFetchProducts(h) ==
    IF FetchSkipped(h)
    THEN hp' = h /\ UNCHANGED reqs
    ELSE /\ NextId <= MaxCalls
         /\ hp' = ProductsFetchStart(h, NextId, PendingOf("useProducts"))
         /\ reqs' = [reqs EXCEPT ![NextId] =
                        getProducts("useProducts", NextId, h.params)]

\* lines 342-343: the effect runs after the first render
ProductsMount ==
    /\ hp.phase = "rendered"
    /\ CallFetchProducts([hp EXCEPT !.phase = "mounted"])
    /\ UNCHANGED <<hsh, hs, hi, hq, browser>>

\* a re-render with the given props.  fetchProducts is a new function when
\* JSON.stringify(params) or enabled changed (line 336); then the effect's
\* cleanup runs (345-350) and the effect calls the new fetchProducts
ProductsRerender(params, enabled) ==
    /\ hp.phase = "mounted"
    /\ IF /\ JSONStringify(params) = JSONStringify(hp.params)
          /\ enabled = hp.enabled
       THEN hp' = [hp EXCEPT !.props = params] /\ UNCHANGED reqs
       ELSE CallFetchProducts([AbortCurrent(hp) EXCEPT !.params = params,
                                                       !.props = params,
                                                       !.enabled = enabled])
    /\ UNCHANGED <<hsh, hs, hi, hq, browser>>

\* lines 338-340, 353: retry() and refetch() call fetchProducts
ProductsRetry ==
    /\ hp.phase = "mounted"
    /\ hp.retryCalls < MaxCalls
    /\ CallFetchProducts(RetryCalled(hp))
    /\ UNCHANGED <<hsh, hs, hi, hq, browser>>

\* lines 345-350: the cleanup of the effect at unmount
ProductsUnmount ==
    /\ hp.phase = "mounted"
    /\ hp' = [AbortCurrent(hp) EXCEPT !.phase = "unmounted"]
    /\ UNCHANGED <<reqs, hsh, hs, hi, hq, browser>>

\* mutant of CallFetchSecond: abortControllerRef is one object shared by
\* the instances of the hook
CallFetchSecondSharedRef(h) ==
    IF FetchSkipped(h)
    THEN hq' = h /\ UNCHANGED <<reqs, hp>>
    ELSE /\ NextId <= MaxCalls
         /\ hq' = ProductsFetchStart(h, NextId, PendingOf("useProducts#2"))
         /\ hp' = AbortCurrent(hp)
         /\ reqs' = [reqs EXCEPT ![NextId] =
                        getProducts("useProducts#2", NextId, h.params)]

\* fetchProducts of the second instance is called with that instance in
\* state h (lines 312-326).  The state and the ref of a hook belong to the
\* component instance that called useState and useRef (307-310)
CallFetchSecond(h) ==
    IF FetchSkipped(h)
    THEN hq' = h /\ UNCHANGED <<reqs, hp>>
    ELSE /\ NextId <= MaxCalls
         /\ hq' = ProductsFetchStart(h, NextId, PendingOf("useProducts#2"))
         /\ reqs' = [reqs EXCEPT ![NextId] =
                        getProducts("useProducts#2", NextId, h.params)]
         /\ UNCHANGED hp

\* lines 342-343: the effect of the second instance runs after its first
\* render
SecondMount ==
    /\ hq.phase = "rendered"
    /\ CallFetchSecond([hq EXCEPT !.phase = "mounted"])
    /\ UNCHANGED <<hsh, hs, hi, browser>>

\* lines 338-340, 353: retry() and refetch() of the second instance
SecondRetry ==
    /\ hq.phase = "mounted"
    /\ CallFetchSecond(hq)
    /\ UNCHANGED <<hsh, hs, hi, browser>>

\* lines 345-350: the cleanup of the effect when the second instance
\* unmounts
SecondUnmount ==
    /\ hq.phase = "mounted"
    /\ hq' = [AbortCurrent(hq) EXCEPT !.phase = "unmounted"]
    /\ UNCHANGED <<reqs, hp, hsh, hs, hi, browser>>

InitProducts ==
    /\ InitReqs
    /\ \E params \in ParamValues, enabled \in BOOLEAN :
           hp = ProductsInit(params, enabled)
    /\ hsh = ShopsInit(<< <<"page", JSNum(1)>> >>, TRUE)
    /\ hs = SuggestionsInit("a")
    /\ hi = InitialDataInit
    /\ NoSecondInstance
    /\ NoBrowser

NextProducts ==
    \/ ProductsMount
    \/ \E params \in ParamValues, enabled \in BOOLEAN :
           ProductsRerender(params, enabled)
    \/ ProductsRetry
    \/ ProductsUnmount
    \/ HookRequestStep

SpecProducts == InitProducts /\ [][NextProducts]_vars

----------------------------------------------------------------------------
(* One useShops instance and the requests it issues *)

\* fetchShops is called with the hook in state h (lines 397-405)
CallFetchShops(h) ==
    IF FetchSkipped(h)
    THEN hsh' = h /\ UNCHANGED reqs
    ELSE /\ NextId <= MaxCalls
         /\ hsh' = ShopsFetchStart(h, NextId)
         /\ reqs' = [reqs EXCEPT ![NextId] =
                        getShops("useShops", NextId, h.params)]

\* lines 418-420: the effect runs after the first render
ShopsMount ==
    /\ hsh.phase = "rendered"
    /\ CallFetchShops([hsh EXCEPT !.phase = "mounted"])
    /\ UNCHANGED <<hp, hs, hi, hq, browser>>

\* a re-render with the given props.  fetchShops is a new function when
\* JSON.stringify(params) or enabled changed (line 412); then the effect,
\* which has no cleanup, calls the new fetchShops
ShopsRerender(params, enabled) ==
    /\ hsh.phase = "mounted"
    /\ IF /\ JSONStringify(params) = JSONStringify(hsh.params)
          /\ enabled = hsh.enabled
       THEN UNCHANGED <<hsh, reqs>>
       ELSE CallFetchShops([hsh EXCEPT !.params = params,
                                       !.enabled = enabled])
    /\ UNCHANGED <<hp, hs, hi, hq, browser>>

\* lines 414-416, 422: retry() and refetch() call fetchShops
ShopsRetry ==
    /\ hsh.phase = "mounted"
    /\ hsh.retryCalls < MaxCalls
    /\ CallFetchShops(RetryCalled(hsh))
    /\ UNCHANGED <<hp, hs, hi, hq, browser>>

InitShops ==
    /\ InitReqs
    /\ hp = ProductsInit(<< <<"page", JSNum(1)>> >>, TRUE)
    /\ \E params \in ParamValues, enabled \in BOOLEAN :
           hsh = ShopsInit(params, enabled)
    /\ hs = SuggestionsInit("a")
    /\ hi = InitialDataInit
    /\ NoSecondInstance
    /\ NoBrowser

NextShops ==
    \/ ShopsMount
    \/ \E params \in ParamValues, enabled \in BOOLEAN :
           ShopsRerender(params, enabled)
    \/ ShopsRetry
    \/ HookRequestStep

SpecShops == InitShops /\ [][NextShops]_vars

----------------------------------------------------------------------------
(* SpecSuggestions: one useSearchSuggestions instance *)

\* lines 526-529: the effect runs after the first render
SuggestionsMount ==
    /\ hs.phase = "rendered"
    /\ hs' = ArmTimer([hs EXCEPT !.phase = "mounted"], hs.query)
    /\ UNCHANGED <<reqs, hp, hsh, hi, hq, browser>>

\* a re-render with another query: the cleanup of the previous effect runs
\* (531-537), then the effect arms a timer for the new query (527-529)
QueryChanges(query) ==
    /\ hs.phase = "mounted"
    /\ query /= hs.query
    /\ hs.changes < MaxChanges
    /\ hs' = ArmTimer([SuggestionsCleanup(hs) EXCEPT
                           !.query = query, !.changes = @ + 1,
                           !.callsSinceChange = 0,
                           !.requestsSinceChange = 0], query)
    /\ UNCHANGED <<reqs, hp, hsh, hi, hq, browser>>

\* lines 527-529, 496-513: a debounce timer fires and calls
\* fetchSuggestions with its query
TimerFires(query) ==
    /\ query \in hs.timers
    /\ LET h == [hs EXCEPT !.timers = @ \ {query}] IN
       IF TooShort(query)
       THEN hs' = SuggestionsShort(h, query) /\ UNCHANGED reqs
       ELSE LET n == getSearchSuggestions("useSearchSuggestions", NextId,
                                          query)
                started == SuggestionsFetchStart(h, NextId, query) IN
            /\ NextId <= MaxCalls
            /\ hs' = IF n.pc = "done"
                     THEN SuggestionsFetchSettle(started, NextId, n.result)
                     ELSE started
            /\ reqs' = [reqs EXCEPT ![NextId] = Released(n)]
    /\ UNCHANGED <<hp, hsh, hi, hq, browser>>

\* lines 531-537: the cleanup of the effect at unmount
SuggestionsUnmount ==
    /\ hs.phase = "mounted"
    /\ hs' = [SuggestionsCleanup(hs) EXCEPT !.phase = "unmounted"]
    /\ UNCHANGED <<reqs, hp, hsh, hi, hq, browser>>

InitSuggestions ==
    /\ InitReqs
    /\ hp = ProductsInit(<< <<"page", JSNum(1)>> >>, TRUE)
    /\ hsh = ShopsInit(<< <<"page", JSNum(1)>> >>, TRUE)
    /\ \E query \in Queries : hs = SuggestionsInit(query)
    /\ hi = InitialDataInit
    /\ NoSecondInstance
    /\ NoBrowser

NextSuggestions ==
    \/ SuggestionsMount
    \/ \E query \in Queries : QueryChanges(query)
    \/ \E query \in Queries : TimerFires(query)
    \/ SuggestionsUnmount
    \/ HookRequestStep

SpecSuggestions == InitSuggestions /\ [][NextSuggestions]_vars

----------------------------------------------------------------------------
(* SpecInitial: one useInitialData instance and its first run *)

\* lines 598-599, 552-561: the effect runs after the first render and calls
\* fetchInitialData, which starts the three fetches before it awaits
InitialDataMount ==
    /\ hi.phase = "rendered"
    /\ NextId + 2 <= MaxReqs
    /\ hi' = InitialDataStart([hi EXCEPT !.phase = "mounted"])
    /\ reqs' = [r \in ReqIds |->
                  IF r \in NextId..(NextId + 2)
                  THEN StartRequest("useInitialData", Slots[r - NextId + 1],
                                    hi.runs + 1, DEFAULT_RETRY_CONFIG)
                  ELSE reqs[r]]
    /\ UNCHANGED <<hp, hsh, hs, hq, browser>>

NextInitial ==
    \/ InitialDataMount
    \/ HookRequestStep

SpecInitial == Init /\ [][NextInitial]_vars

----------------------------------------------------------------------------
(* SpecApi: the API methods called directly by a caller, on a page without  *)
(* hooks, or through one useSearchSuggestions instance.  Callers and hook   *)
(* instances share no state, so a behaviour follows one of them.            *)

\* the values tried for a parameter of getProducts and getShops
JSValues ==
    {JSUndefined, JSNull, JSStr(""), JSStr("all"), JSNum(0), JSNum(1)}

\* the parameter objects tried: every choice of values for three keys, and
\* an object of four keys
ParamObjects ==
    { << <<"page", p>>, <<"query", q>>, <<"min_price", m>> >> :
        p \in JSValues, q \in JSValues, m \in JSValues }
    \cup { << <<"page", JSNum(1)>>, <<"query", JSStr("")>>,
              <<"category", JSStr("all")>>, <<"min_price", JSNum(0)>> >> }

\* no hook is part of the page
NoHook ==
    hp.phase = "absent" /\ hsh.phase = "absent" /\ hs.phase = "absent"

\* a caller calls an API method
CallGetProducts(params) ==
    /\ reqs' = [reqs EXCEPT ![1] = getProducts("caller", 0, params)]
    /\ UNCHANGED <<hp, hsh, hs, hi, hq, browser>>

CallGetShops(params) ==
    /\ reqs' = [reqs EXCEPT ![1] = getShops("caller", 0, params)]
    /\ UNCHANGED <<hp, hsh, hs, hi, hq, browser>>

CallGetSearchSuggestions(query) ==
    /\ reqs' = [reqs EXCEPT ![1] = getSearchSuggestions("caller", 0, query)]
    /\ UNCHANGED <<hp, hsh, hs, hi, hq, browser>>

\* the first call of a caller on a page without hooks
CallApiMethod ==
    /\ NoHook /\ Issued = {}
    /\ \/ \E params \in ParamObjects : CallGetProducts(params)
       \/ \E params \in ParamObjects : CallGetShops(params)
       \/ \E query \in Queries : CallGetSearchSuggestions(query)

\* the hooks of a page on which only the hook named `user` is used
InitPage(user, params, enabled, query) ==
    /\ InitReqs
    /\ hi = InitialDataInit
    /\ NoSecondInstance
    /\ NoBrowser
    /\ hp = IF user = "useProducts"
            THEN ProductsInit(params, enabled)
            ELSE Absent(ProductsInit(<< <<"page", JSNum(1)>> >>, TRUE))
    /\ hsh = IF user = "useShops"
             THEN ShopsInit(params, enabled)
             ELSE Absent(ShopsInit(<< <<"page", JSNum(1)>> >>, TRUE))
    /\ hs = IF user = "useSearchSuggestions"
            THEN SuggestionsInit(query)
            ELSE Absent(SuggestionsInit("a"))

InitApi ==
    \E user \in {"caller", "useSearchSuggestions"}, query \in Queries :
        InitPage(user, << <<"page", JSNum(1)>> >>, TRUE, query)

NextApi ==
    \/ CallApiMethod
    \/ SuggestionsMount
    \/ \E query \in Queries : QueryChanges(query)
    \/ \E query \in Queries : TimerFires(query)
    \/ SuggestionsUnmount
    \/ HookRequestStep

SpecApi == InitApi /\ [][NextApi]_vars

----------------------------------------------------------------------------
(* SpecHooks: a page that uses one of the hooks useProducts, useShops and   *)
(* useSearchSuggestions                                                     *)

InitHooks ==
    \E user \in {"useProducts", "useShops", "useSearchSuggestions"},
       params \in ParamValues, enabled \in BOOLEAN, query \in Queries :
        InitPage(user, params, enabled, query)

NextHooks ==
    \/ ProductsMount
    \/ \E params \in ParamValues, enabled \in BOOLEAN :
           ProductsRerender(params, enabled)
    \/ ProductsRetry
    \/ ProductsUnmount
    \/ ShopsMount
    \/ \E params \in ParamValues, enabled \in BOOLEAN :
           ShopsRerender(params, enabled)
    \/ ShopsRetry
    \/ SuggestionsMount
    \/ \E query \in Queries : QueryChanges(query)
    \/ \E query \in Queries : TimerFires(query)
    \/ SuggestionsUnmount
    \/ HookRequestStep

SpecHooks == InitHooks /\ [][NextHooks]_vars

----------------------------------------------------------------------------
(* SpecRetry: a page that uses useProducts or useShops, with the calls of   *)
(* retry() observed; the page changes the params prop and keeps the         *)
(* enabled prop it started with                                             *)

InitRetry ==
    /\ InitReqs
    /\ hi = InitialDataInit
    /\ NoSecondInstance
    /\ NoBrowser
    /\ hs = Absent(SuggestionsInit("a"))
    /\ \E user \in {"useProducts", "useShops"},
          params \in ParamValues, enabled \in BOOLEAN :
           /\ hp = IF user = "useProducts"
                   THEN Observed(ProductsInit(params, enabled))
                   ELSE Absent(ProductsInit(params, enabled))
           /\ hsh = IF user = "useShops"
                    THEN Observed(ShopsInit(params, enabled))
                    ELSE Absent(ShopsInit(params, enabled))

NextRetry ==
    \/ ProductsMount
    \/ \E params \in ParamValues : ProductsRerender(params, hp.enabled)
    \/ ProductsRetry
    \/ ShopsMount
    \/ \E params \in ParamValues : ShopsRerender(params, hsh.enabled)
    \/ ShopsRetry
    \/ HookRequestStep

SpecRetry == InitRetry /\ [][NextRetry]_vars

----------------------------------------------------------------------------
(* SpecRender: one useProducts instance whose page re-renders it with     *)
(* params objects that are equal, equal in their JSON form only, or       *)
(* different                                                                *)

\* the values of the `params` prop tried: the second one has the JSON form
\* of the first
RenderParams ==
    { << <<"page", JSNum(1)>> >>,
      << <<"page", JSNum(1)>>, <<"query", JSUndefined>> >>,
      << <<"page", JSNum(2)>> >> }

InitRender ==
    \E params \in RenderParams, enabled \in BOOLEAN :
        InitPage("useProducts", params, enabled, "a")

NextRender ==
    \/ ProductsMount
    \/ \E params \in RenderParams, enabled \in BOOLEAN :
           ProductsRerender(params, enabled)
    \/ ProductsRetry
    \/ HookRequestStep

SpecRender == InitRender /\ [][NextRender]_vars

----------------------------------------------------------------------------
(* SpecInstances: a page that uses two hook instances at once: two        *)
(* instances of useProducts, or one of useProducts and one of             *)
(* useSearchSuggestions.  The network answers every attempt at once: the   *)
(* retries of a request, which touch no state of a hook, are followed in   *)
(* the other specifications                                                 *)

InitInstances ==
    /\ InitReqs
    /\ hi = InitialDataInit
    /\ NoBrowser
    /\ hsh = Absent(ShopsInit(<< <<"page", JSNum(1)>> >>, TRUE))
    /\ hp = ProductsInit(<< <<"page", JSNum(1)>> >>, TRUE)
    /\ \E other \in {"useProducts", "useSearchSuggestions"} :
          /\ hq = IF other = "useProducts"
                  THEN ProductsInit(<< <<"page", JSNum(2)>> >>, TRUE)
                  ELSE Absent(ProductsInit(<< <<"page", JSNum(1)>> >>, TRUE))
          /\ hs = IF other = "useSearchSuggestions"
                  THEN SuggestionsInit("ab")
                  ELSE Absent(SuggestionsInit("a"))

NextInstances ==
    \/ ProductsMount
    \/ ProductsRetry
    \/ ProductsUnmount
    \/ SecondMount
    \/ SecondRetry
    \/ SecondUnmount
    \/ SuggestionsMount
    \/ \E query \in Queries : QueryChanges(query)
    \/ \E query \in Queries : TimerFires(query)
    \/ SuggestionsUnmount
    \/ SettlingRequestStep

SpecInstances == InitInstances /\ [][NextInstances]_vars

----------------------------------------------------------------------------
(* SpecFair: a call of apiRequest under any of the policies, or one       *)
(* useProducts instance, with the scheduling the runtime guarantees: the   *)
(* 30 second timer ends an attempt that got no answer, a backoff timer     *)
(* fires, a body is read, and the effect of a rendered hook runs.  What    *)
(* the user does (retry, unmount) may or may not happen                     *)

InitFair ==
    \E user \in {"caller", "useProducts"}, enabled \in BOOLEAN :
        InitPage(user, << <<"page", JSNum(1)>> >>, enabled, "a")

\* a step of a request: any answer for the call of a caller, the answers
\* tried for hooks for the requests of the hook
FairRequestStep == IF NoHook THEN RequestStep ELSE HookRequestStep

NextFair ==
    \/ NoHook /\ \E config \in Policies : CallApiRequest(config)
    \/ FairRequestStep
    \/ ProductsMount
    \/ ProductsRetry
    \/ ProductsUnmount

SpecFair ==
    /\ InitFair /\ [][NextFair]_vars
    /\ WF_vars(FairRequestStep)
    /\ WF_vars(ProductsMount)

----------------------------------------------------------------------------
(* SpecBrowser: the storefront page and its useProducts instance.  The     *)
(* server answers every attempt with the products; the other hooks of the  *)
(* page share no state with the filters, the page number and useProducts   *)

\* the network and the server while every request succeeds
ServingRequestStep ==
    \E r \in ReqIds :
        \/ FetchResponds(r, 200)
        \/ BodyArrives(r, [json |-> TRUE, success |-> TRUE, error |-> ""])

InitBrowser ==
    /\ InitReqs
    /\ hi = InitialDataInit
    /\ NoSecondInstance
    /\ browser = BrowserInit
    /\ hp = Observed(ProductsInit(apiParams(BrowserInit), TRUE))
    /\ hsh = Absent(ShopsInit(<< <<"page", JSNum(1)>> >>, TRUE))
    /\ hs = Absent(SuggestionsInit("a"))

NextBrowser ==
    \/ BrowserMount
    \/ \E value \in SearchQueries : SearchChanges(value)
    \/ \E value \in Categories : CategoryChanges(value)
    \/ \E value \in Cities : CityChanges(value)
    \/ \E value \in PriceRanges : PriceRangeChanges(value)
    \/ \E value \in SortOrders : SortChanges(value)
    \/ \E page \in 1..MaxPage : HandlePageChange(page)
    \/ ClearFilters
    \/ ServingRequestStep

SpecBrowser == InitBrowser /\ [][NextBrowser]_vars

----------------------------------------------------------------------------
(* Claims about fetchWithRetry, checked under Spec *)

\* the message of the NetworkError that fetchWithRetry builds (line 113)
ConnectMessage ==
    "Unable to connect to the server. Please check your internet connection."

\* C1: a request all of whose attempts failed retriably has made exactly
\* maxRetries + 1 attempts when it ends, and raises the classified error of
\* its last attempt: SERVER_ERROR with that attempt's status after a 5xx
\* response, a NetworkError after a transport failure
C1_ExhaustedRetries ==
    \A r \in ReqIds :
        LET q == reqs[r] IN
        /\ q.attempts <= q.cfg.maxRetries + 1
        /\ (q.pc = "done" /\ q.failures = q.attempts) =>
              /\ q.attempts = q.cfg.maxRetries + 1
              /\ q.result = ErrorResult(q.raised)
              /\ IF q.lastOutcome.kind = "response"
                 THEN /\ q.raised.cls = "APIError"
                      /\ q.raised.code = "SERVER_ERROR"
                      /\ q.raised.status = q.lastOutcome.status
                 ELSE /\ q.raised.cls = "NetworkError"
                      /\ q.raised.code = "NETWORK_ERROR"
                      /\ q.raised.status = 0

\* C1 witness: under the default policy four retriable failures, the last
\* one a 503 response, end the request with SERVER_ERROR 503
C1_Witness ==
    \E r \in ReqIds :
        /\ reqs[r].pc = "done"
        /\ reqs[r].cfg = DEFAULT_RETRY_CONFIG
        /\ reqs[r].failures = 4 /\ reqs[r].attempts = 4
        /\ reqs[r].lastOutcome = ResponseOutcome(503)
        /\ reqs[r].raised.status = 503

\* C2: a 4xx response ends the request at once, after exactly one attempt
\* more than the retriable failures before it, with the HTTP_ERROR of that
\* status, whatever maxRetries is
C2_ClientErrorNotRetried ==
    \A r \in ReqIds :
        LET q == reqs[r] IN
        (/\ q.lastOutcome.kind = "response"
         /\ q.lastOutcome.status >= 400 /\ q.lastOutcome.status <= 499) =>
            /\ q.pc = "done"
            /\ q.attempts = q.failures + 1
            /\ Len(q.waits) = q.failures
            /\ q.raised.code = "HTTP_ERROR"
            /\ q.raised.status = q.lastOutcome.status
            /\ q.result = ErrorResult(q.raised)

\* C2 witness: a first-attempt 404 under a policy with 5 retries
C2_Witness ==
    \E r \in ReqIds :
        /\ reqs[r].pc = "done"
        /\ reqs[r].cfg.maxRetries = 5
        /\ reqs[r].lastOutcome = ResponseOutcome(404)
        /\ reqs[r].attempts = 1

\* the waits of the default delay schedule, by attempt index + 1
DefaultWaits == <<1000, 2000, 4000, 8000, 10000>>

\* C3: the i-th wait (after the failed attempt i-1) is
\* min(baseDelay * backoffMultiplier^(i-1), maxDelay), never above maxDelay;
\* under the default schedule the first five are 1000 .. 10000
C3_DelaySchedule ==
    \A r \in ReqIds :
        LET q == reqs[r] IN
        \A i \in 1..Len(q.waits) :
            LET raw == q.cfg.baseDelay * (q.cfg.backoffMultiplier ^ (i - 1)) IN
            /\ q.waits[i] = (IF raw < q.cfg.maxDelay THEN raw ELSE q.cfg.maxDelay)
            /\ q.waits[i] <= q.cfg.maxDelay
            /\ (/\ q.cfg.baseDelay = 1000 /\ q.cfg.backoffMultiplier = 2
                /\ q.cfg.maxDelay = 10000 /\ i <= 5) =>
                    q.waits[i] = DefaultWaits[i]

\* C3 witness: five waits under the default schedule, the last one capped
C3_Witness ==
    \E r \in ReqIds :
        /\ reqs[r].cfg.baseDelay = 1000
        /\ reqs[r].waits = <<1000, 2000, 4000, 8000, 10000>>

\* C5 (as claimed): once the caller has aborted, the request makes no
\* further attempt and no further wait, and ends with the abort itself
C5_AbortPropagates ==
    \A r \in ReqIds :
        LET q == reqs[r] IN
        q.signalAborted =>
            /\ q.attempts = q.attemptsAtAbort
            /\ Len(q.waits) = q.waitsAtAbort
            /\ q.pc = "done" => (/\ q.result.kind = "error"
                                 /\ q.result.error.name = "AbortError")

\* C7: after an ok response at the attempt that follows k retriable
\* failures, the response is returned: k + 1 attempts, k waits, and neither
\* an attempt nor a wait after it
C7_SuccessStops ==
    \A r \in ReqIds :
        LET q == reqs[r] IN
        (/\ q.lastOutcome.kind = "response"
         /\ q.lastOutcome.status >= 200 /\ q.lastOutcome.status <= 299) =>
            /\ q.pc \in {"json", "done"}
            /\ q.status = q.lastOutcome.status
            /\ q.raised = NoError
            /\ q.attempts = q.failures + 1
            /\ q.attempts <= q.cfg.maxRetries + 1
            /\ Len(q.waits) = q.failures

\* C7 witness: a 201 response at the third attempt
C7_Witness ==
    \E r \in ReqIds :
        /\ reqs[r].pc = "json"
        /\ reqs[r].failures = 2 /\ reqs[r].attempts = 3
        /\ reqs[r].lastOutcome = ResponseOutcome(201)
        /\ Len(reqs[r].waits) = 2

\* C21: a backoff wait happens only between two consecutive attempts of one
\* call.  A wait starts only in the step in which an attempt that is not the
\* last permitted one fails retriably, and it is the i-th wait after the
\* i-th attempt; the step after a wait is the next attempt; the first
\* attempt follows no wait; a call ends without a wait after its last
\* attempt, so with maxRetries waits when every attempt failed retriably
C21_WaitsBetweenAttempts ==
    [][\A r \in ReqIds :
          LET q == reqs[r]
              n == reqs'[r] IN
          /\ (q.pc = "idle" /\ n.pc /= "idle") =>
                 n.pc = "fetch" /\ n.attempts = 1 /\ n.waits = <<>>
          /\ (q.pc /= "idle" /\ n.waits /= q.waits) =>
                 /\ q.pc = "fetch" /\ n.pc = "sleep"
                 /\ RetriableOutcome(n.lastOutcome)
                 /\ n.attempts = q.attempts
                 /\ n.attempts <= n.cfg.maxRetries
                 /\ Len(n.waits) = n.attempts
                 /\ SubSeq(n.waits, 1, Len(q.waits)) = q.waits
          /\ q.pc = "sleep" =>
                 /\ n.waits = q.waits
                 /\ \/ n.pc = "sleep" /\ n.attempts = q.attempts
                    \/ n.pc = "fetch" /\ n.attempts = q.attempts + 1
          /\ (q.pc = "fetch" /\ n.pc \in {"json", "done"}) =>
                 /\ n.waits = q.waits
                 /\ Len(n.waits) = n.attempts - 1
          /\ (q.pc = "fetch" /\ n.pc = "done" /\ n.failures = n.attempts) =>
                 Len(n.waits) = n.cfg.maxRetries
          /\ (q.pc \in {"json", "done"} /\ n.pc /= "idle") =>
                 n.waits = q.waits /\ n.attempts = q.attempts
    ]_vars

\* C21 witness: under the default policy a call whose four attempts all
\* failed retriably has ended after three waits, none after the last failure
C21_Witness ==
    \E r \in ReqIds :
        /\ reqs[r].pc = "done"
        /\ reqs[r].cfg = DEFAULT_RETRY_CONFIG
        /\ reqs[r].attempts = 4 /\ reqs[r].failures = 4
        /\ reqs[r].waits = <<1000, 2000, 4000>>

----------------------------------------------------------------------------
(* Claims about apiRequest, checked under Spec *)

\* the codes of the error taxonomy
ErrorCodes ==
    {"NETWORK_ERROR", "HTTP_ERROR", "SERVER_ERROR", "API_ERROR", "UNKNOWN_ERROR"}

\* the body of request r has been read
BodyRead(r) == reqs[r].pc = "done" /\ reqs[r].body /= NoBody

\* C11: every failure that leaves apiRequest is an APIError (NetworkError
\* included) with one of the five codes; an error that fetchWithRetry raised
\* typed leaves unchanged, and a failure that is not typed, such as a body
\* that does not parse, leaves as UNKNOWN_ERROR with status 500 and the
\* original error attached
C11_TypedErrors ==
    \A r \in ReqIds :
        LET q == reqs[r] IN
        (q.pc = "done" /\ q.result.kind = "error") =>
            /\ InstanceOfAPIError(q.result.error)
            /\ q.result.error.code \in ErrorCodes
            /\ (q.raised /= NoError /\ q.raised.cls \in {"APIError", "NetworkError"})
                  => q.result.error = q.raised
            /\ (q.raised /= NoError /\ q.raised.cls \notin {"APIError", "NetworkError"})
                  => /\ q.result.error.code = "UNKNOWN_ERROR"
                     /\ q.result.error.status = 500
                     /\ q.result.error.originalError = q.raised.name
            /\ (BodyRead(r) /\ ~q.body.json)
                  => /\ q.result.error.cls = "APIError"
                     /\ q.result.error.code = "UNKNOWN_ERROR"
                     /\ q.result.error.status = 500
                     /\ q.result.error.originalError = "SyntaxError"

\* C11 witness: after one failed attempt a 200 response came whose body is
\* not JSON, and the request ended with UNKNOWN_ERROR
C11_Witness ==
    \E r \in ReqIds :
        /\ BodyRead(r) /\ ~reqs[r].body.json
        /\ reqs[r].failures = 1
        /\ reqs[r].lastOutcome = ResponseOutcome(200)
        /\ reqs[r].result.error.code = "UNKNOWN_ERROR"

\* C13: an ok response whose envelope says success false ends the request
\* with API_ERROR, carrying the server's message (the default text when it
\* gave none) and the status of the response, right after the attempts that
\* led to the response: no attempt and no wait follows
C13_EnvelopeFailure ==
    \A r \in ReqIds :
        LET q == reqs[r] IN
        (BodyRead(r) /\ q.body.json /\ ~q.body.success) =>
            /\ q.result.kind = "error"
            /\ q.result.error.cls = "APIError"
            /\ q.result.error.code = "API_ERROR"
            /\ q.result.error.message =
                  (IF q.body.error = "" THEN "API request failed" ELSE q.body.error)
            /\ q.result.error.status = q.lastOutcome.status
            /\ q.lastOutcome.kind = "response"
            /\ q.attempts = q.failures + 1
            /\ Len(q.waits) = q.failures

\* C13 witness: a 201 response at the second attempt carried success false
\* with the message "Out of stock"
C13_Witness ==
    \E r \in ReqIds :
        /\ BodyRead(r)
        /\ reqs[r].body = [json |-> TRUE, success |-> FALSE, error |-> "Out of stock"]
        /\ reqs[r].lastOutcome = ResponseOutcome(201)
        /\ reqs[r].attempts = 2
        /\ reqs[r].result.error.message = "Out of stock"
        /\ reqs[r].result.error.status = 201

\* the error that the last attempt of request r was classified as
Classified(r) ==
    IF reqs[r].pc = "done" THEN reqs[r].raised ELSE reqs[r].lastError

\* C18: the outcome of the latest attempt is classified by what came back:
\* an ok response is returned (no error), a status in 400..499 is HTTP_ERROR
\* with that status, a status of 500 or more is SERVER_ERROR with that
\* status, and a transport failure (TypeError, AbortError, NETWORK_ERR) is a
\* NetworkError with status 0 and code NETWORK_ERROR
C18_Classification ==
    \A r \in ReqIds :
        LET q == reqs[r]
            o == q.lastOutcome
            e == Classified(r) IN
        /\ (o.kind = "response" /\ o.status >= 200 /\ o.status <= 299) =>
               /\ e = NoError
               /\ q.pc \in {"json", "done"}
               /\ q.status = o.status
        /\ (o.kind = "response" /\ o.status >= 400 /\ o.status <= 499) =>
               /\ e.cls = "APIError" /\ e.code = "HTTP_ERROR"
               /\ e.status = o.status
        /\ (o.kind = "response" /\ o.status >= 500) =>
               /\ e.cls = "APIError" /\ e.code = "SERVER_ERROR"
               /\ e.status = o.status
        /\ o.kind = "reject" =>
               /\ o.name \in {"TypeError", "AbortError", "Error"}
               /\ e.cls = "NetworkError" /\ e.code = "NETWORK_ERROR"
               /\ e.status = 0
               /\ e.originalError = o.name

\* C18 witness: a request that saw a 500 response, then an error with code
\* NETWORK_ERR, and is waiting to retry with a NetworkError as its last error
C18_Witness ==
    \E r \in ReqIds :
        /\ reqs[r].pc = "sleep"
        /\ reqs[r].attempts = 2
        /\ reqs[r].waits = <<1000, 2000>>
        /\ reqs[r].lastOutcome = RejectOutcome(NetworkErrRaw)
        /\ reqs[r].lastError.cls = "NetworkError"

\* C20 (as claimed): for every error that leaves apiRequest,
\* isRetriableError is true exactly for NetworkError and SERVER_ERROR, and
\* so false for HTTP_ERROR, API_ERROR and UNKNOWN_ERROR
C20_RetriableAgrees ==
    \A r \in ReqIds :
        LET q == reqs[r] IN
        (q.pc = "done" /\ q.result.kind = "error") =>
            (isRetriableError(q.result.error) <=>
                q.result.error.code \in {"NETWORK_ERROR", "SERVER_ERROR"})

----------------------------------------------------------------------------
(* Claims about getErrorMessage, checked under SpecMessages *)

\* C23: the message getErrorMessage gives for what a catch block caught: the
\* connectivity message for a NetworkError; for HTTP_ERROR the not-found
\* message at 404, the invalid-request message at 400 and the error's own
\* message at other statuses; the server message for SERVER_ERROR; the
\* error's own message for API_ERROR and UNKNOWN_ERROR; the fallback for a
\* value that is not an Error; and never the empty text for an error that
\* apiRequest raised
C23_Messages ==
    \A r \in ReqIds :
        LET q == reqs[r]
            e == q.caught
            m == q.message IN
        q.message /= "none" =>
            /\ e.cls = "NetworkError" =>
                  m = "Unable to connect to the server. Please check your internet connection and try again."
            /\ (e.cls = "APIError" /\ e.code = "HTTP_ERROR" /\ e.status = 404) =>
                  m = "The requested resource was not found."
            /\ (e.cls = "APIError" /\ e.code = "HTTP_ERROR" /\ e.status = 400) =>
                  m = "Invalid request. Please check your input and try again."
            /\ (/\ e.cls = "APIError" /\ e.code = "HTTP_ERROR"
                /\ e.status \notin {400, 404}) => m = e.message
            /\ (e.cls = "APIError" /\ e.code = "SERVER_ERROR") =>
                  m = "Server error. Please try again in a few moments."
            /\ (e.cls = "APIError" /\ e.code \in {"API_ERROR", "UNKNOWN_ERROR"}) =>
                  m = e.message
            /\ e.cls = "none" =>
                  m = "An unexpected error occurred. Please try again."
            /\ q.result.kind = "error" =>
                  /\ e = q.result.error
                  /\ e.code \in {"NETWORK_ERROR", "HTTP_ERROR", "SERVER_ERROR",
                                 "API_ERROR", "UNKNOWN_ERROR"}
                  /\ m /= ""

\* C23 witness: the catch block of a caller was given the API_ERROR of a
\* failed envelope and shows the server's own message
C23_Witness ==
    \E r \in ReqIds :
        /\ reqs[r].result.kind = "error"
        /\ reqs[r].caught = reqs[r].result.error
        /\ reqs[r].caught.code = "API_ERROR"
        /\ reqs[r].message = "Out of stock"

----------------------------------------------------------------------------
(* Claims about the request headers, checked under SpecHeaders *)

\* the value the caller supplies for the header `name`: its last entry of
\* that name, whatever the case
Supplied(headers, name) ==
    LET same == SelectSeq(headers.entries, LAMBDA e : LowerCase(e[1]) = name) IN
    IF same = <<>> THEN "none" ELSE same[Len(same)][2]

----------------------------------------------------------------------------
(* Claims about termination, checked under SpecFair *)

\* the hook is part of the page and has not been unmounted
Alive(h) == h.phase \in {"rendered", "mounted"}

----------------------------------------------------------------------------
(* Claims about useProducts, checked under SpecProducts *)

\* what the hook shows when only the outcome of request r counts, on a
\* first load
OutcomeOnly(r) ==
    [data |-> IF reqs[r].result.kind = "value" THEN reqs[r].result.value
              ELSE NullData,
     error |-> IF reqs[r].result.kind = "error"
               THEN getErrorMessage(reqs[r].result.error)
               ELSE NullStr,
     loading |-> FALSE]

\* fetch A (request 1) and then fetch B (request 2) were issued, B before A
\* settled, no other fetch was, and both have settled
BothSettled ==
    /\ hp.phase = "mounted"
    /\ Issued = {1, 2}
    /\ 1 \in hp.superseded
    /\ reqs[1].pc = "done" /\ reqs[2].pc = "done"

\* C4 (as claimed): once A and B have both settled, data, error and
\* loading are those of B's outcome alone
C4_LatestWins ==
    BothSettled =>
        [data |-> hp.data, error |-> hp.error, loading |-> hp.loading]
            = OutcomeOnly(2)

\* C6 (as claimed): no request whose controller was aborted before it
\* settled has written the hook's error
C6_AbortedNeverSetsError == ~hp.staleError

\* C17 (as claimed): while the request of the most recent fetch of the
\* mounted hook has not settled, loading is true
C17_LoadingWhileLatestPending ==
    (hp.phase = "mounted" /\ hp.ctrl /= 0 /\ reqs[hp.ctrl].pc /= "done")
        => hp.loading

\* the attempt of request r that was in flight has just timed out
TimedOut(r) ==
    /\ reqs[r].pc = "fetch"
    /\ \/ /\ reqs'[r].pc = "sleep"
          /\ reqs'[r].lastOutcome = RejectOutcome(AbortErrorRaw)
       \/ /\ reqs'[r].pc = "done"
          /\ reqs'[r].result.kind = "error"
          /\ reqs'[r].result.error.originalError = "AbortError"

\* C8: a timed-out attempt is a NetworkError and a retriable failure: with
\* attempts left the request goes to its backoff wait and the hook is not
\* touched; at the last attempt (maxRetries + 1 made) the request raises
\* the NetworkError, and the mounted hook shows the connectivity message
\* with loading false
C8_TimeoutIsNetworkError ==
    [][\A r \in ReqIds :
        TimedOut(r) =>
            IF reqs[r].attempt < reqs[r].cfg.maxRetries
            THEN /\ reqs'[r].pc = "sleep"
                 /\ reqs'[r].lastError.cls = "NetworkError"
                 /\ reqs'[r].waits =
                        Append(reqs[r].waits,
                               calculateDelay(reqs[r].attempt, reqs[r].cfg))
                 /\ hp' = hp
            ELSE /\ reqs'[r].pc = "done"
                 /\ reqs[r].attempts = reqs[r].cfg.maxRetries + 1
                 /\ reqs'[r].result.error.cls = "NetworkError"
                 /\ reqs'[r].result.error.code = "NETWORK_ERROR"
                 /\ hp.phase = "mounted" =>
                        /\ hp'.error = getErrorMessage(NetworkError(ConnectMessage, "AbortError"))
                        /\ hp'.error /= NullStr
                        /\ ~hp'.loading]_vars

\* C8 witness: the only request of the mounted hook ended with the
\* NetworkError of a timeout, and the hook shows the connectivity message
C8_Witness ==
    /\ hp.phase = "mounted"
    /\ Issued = {1}
    /\ reqs[1].pc = "done"
    /\ reqs[1].result.error.cls = "NetworkError"
    /\ reqs[1].result.error.originalError = "AbortError"
    /\ hp.error = "Unable to connect to the server. Please check your internet connection and try again."
    /\ ~hp.loading

----------------------------------------------------------------------------
(* Claims about the API methods, checked under SpecApi *)

\* the object {page: 1, query: "", category: "all", min_price: 0}
ExampleParams ==
    << <<"page", JSNum(1)>>, <<"query", JSStr("")>>,
       <<"category", JSStr("all")>>, <<"min_price", JSNum(0)>> >>

\* the text of a value that is sent
TextOf(value) ==
    CASE value = JSNum(0) -> "0"
      [] value = JSNum(1) -> "1"
      [] value = JSStr("all") -> "all"
      [] OTHER -> "?"

\* the positions of the entries of an object whose value is none of
\* undefined, null and the empty string
Present(params) ==
    {i \in 1..Len(params) : params[i][2] \notin {JSUndefined, JSNull, JSStr("")}}

\* C12: getProducts and getShops send a parameter exactly when its value is
\* none of undefined, null and ''; what is sent is the text of the value,
\* so 0 is sent as "0", and never the text "undefined", "null" or an empty
\* value; for {page: 1, query: "", category: "all", min_price: 0} the query
\* string is page=1&category=all&min_price=0, without a query key
C12_QueryString ==
    \A r \in ReqIds :
        LET q == reqs[r] IN
        q.api \in {"getProducts", "getShops"} =>
            /\ \A i \in 1..Len(q.arg) :
                  IF i \in Present(q.arg)
                  THEN \E j \in 1..Len(q.searchParams) :
                          /\ q.searchParams[j] = <<q.arg[i][1], TextOf(q.arg[i][2])>>
                          /\ \A k \in 1..Len(q.searchParams) :
                                q.searchParams[k][1] = q.arg[i][1] => k = j
                  ELSE \A j \in 1..Len(q.searchParams) :
                          q.searchParams[j][1] /= q.arg[i][1]
            /\ Len(q.searchParams) = Cardinality(Present(q.arg))
            /\ \A j \in 1..Len(q.searchParams) :
                  q.searchParams[j][2] \notin {"undefined", "null", ""}
            /\ q.endpoint =
                  (IF q.api = "getProducts" THEN "/products?" ELSE "/shops?")
                     \o SearchParamsToString(q.searchParams)
            /\ q.arg = ExampleParams =>
                  q.endpoint =
                     (IF q.api = "getProducts" THEN "/products?" ELSE "/shops?")
                        \o "page=1&category=all&min_price=0"

\* C12 witness: getProducts was called with the example object and its
\* request is in flight to /products?page=1&category=all&min_price=0
C12_Witness ==
    /\ reqs[1].api = "getProducts"
    /\ reqs[1].arg = ExampleParams
    /\ reqs[1].pc = "fetch"
    /\ reqs[1].searchParams =
          << <<"page", "1">>, <<"category", "all">>, <<"min_price", "0">> >>
    /\ reqs[1].endpoint = "/products?page=1&category=all&min_price=0"

\* C14: getSearchSuggestions called with a query shorter than 2 characters
\* returns the empty result without any network attempt, and with a longer
\* query it makes a request; a call of fetchSuggestions by the hook starts
\* no request when its query is shorter than 2 characters and one request
\* otherwise
C14_ShortQuery ==
    /\ \A r \in ReqIds :
          LET q == reqs[r] IN
          q.api = "getSearchSuggestions" =>
              IF Len(q.arg[1][2].s) < 2
              THEN /\ q.pc = "done"
                   /\ q.result = ValueResult(EmptySuggestions)
                   /\ q.attempts = 0
                   /\ q.endpoint = ""
              ELSE /\ q.attempts >= 1
                   /\ q.endpoint = "/search/suggestions?query=" \o q.arg[1][2].s
    /\ (hs.phase = "mounted" /\ hs.callsSinceChange >= 1) =>
          hs.requestsSinceChange = (IF Len(hs.lastCall) < 2 THEN 0 ELSE 1)
    /\ (hs.phase = "mounted" /\ hs.calls = 1 /\ Len(hs.lastCall) < 2) =>
          Issued = {}
    /\ (hs.phase = "mounted" /\ hs.calls = 1 /\ Len(hs.lastCall) >= 2) =>
          Issued = {1}

\* C14 witness: a caller got the empty result for the query "a" and no
\* attempt was made
C14_Witness ==
    /\ reqs[1].api = "getSearchSuggestions"
    /\ reqs[1].arg = << <<"query", JSStr("a")>> >>
    /\ reqs[1].pc = "done"
    /\ reqs[1].result = ValueResult(EmptySuggestions)
    /\ reqs[1].attempts = 0

----------------------------------------------------------------------------
(* Claims about retry(), checked under SpecRetry *)

\* the step is a call of retry() on the hook whose state goes from h to n
RetryStep(h, n) == n.retryCalls = h.retryCalls + 1

\* the step starts request r for `owner`
NewRequest(r, owner) ==
    /\ reqs[r].pc = "idle"
    /\ reqs'[r].pc = "fetch"
    /\ reqs'[r].owner = owner
    /\ reqs'[r].attempts = 1

\* C15 (as claimed): every call of retry() starts a new request, whatever
\* the state of the hook
C15_RetryAlwaysFetches ==
    [][/\ RetryStep(hp, hp') => \E r \in ReqIds : NewRequest(r, "useProducts")
       /\ RetryStep(hsh, hsh') => \E r \in ReqIds : NewRequest(r, "useShops")
      ]_vars

\* C15 (amended): a call of retry() on an enabled hook starts a new request
\* with the current params of the hook, sets loading and clears the error,
\* whether the hook was loading, had succeeded or had failed; on a disabled
\* hook it starts nothing and changes nothing
C15_RetryFetchesWhenEnabled ==
    [][/\ RetryStep(hp, hp') =>
            IF hp.enabled
            THEN \E r \in ReqIds :
                    /\ NewRequest(r, "useProducts")
                    /\ hp'.ctrl = r
                    /\ hp'.fetched = hp.params
                    /\ hp'.params = hp.params
                    /\ hp'.loading /\ hp'.error = NullStr
                    /\ hp'.data = hp.data
            ELSE reqs' = reqs /\ hp' = RetryCalled(hp)
       /\ RetryStep(hsh, hsh') =>
            IF hsh.enabled
            THEN \E r \in ReqIds :
                    /\ NewRequest(r, "useShops")
                    /\ hsh'.latest = r
                    /\ hsh'.fetched = hsh.params
                    /\ hsh'.params = hsh.params
                    /\ hsh'.loading /\ hsh'.error = NullStr
                    /\ hsh'.data = hsh.data
            ELSE reqs' = reqs /\ hsh' = RetryCalled(hsh)
      ]_vars

\* C15 witness: the fetch of the mount of useProducts failed, retry() was
\* called and its request for the same params is in flight
C15_Witness ==
    /\ hp.phase = "mounted" /\ hp.enabled
    /\ hp.retryCalls = 1
    /\ Issued = {1, 2}
    /\ reqs[1].pc = "done" /\ reqs[1].result.kind = "error"
    /\ reqs[2].pc = "fetch"
    /\ hp.ctrl = 2 /\ hp.fetched = hp.params
    /\ hp.loading /\ hp.error = NullStr

----------------------------------------------------------------------------
(* Claims about the fetches of useProducts, checked under SpecRender *)

\* the entries of a params object that hold a value
Defined(params) == SelectSeq(params, LAMBDA e : e[2] /= JSUndefined)

\* two params objects are equal by value: the same entries that hold a
\* value, in the same order
EqualByValue(a, b) == Defined(a) = Defined(b)

\* the requests the step starts for useProducts
NewFetches == {r \in ReqIds : NewRequest(r, "useProducts")}

\* C22: the mount of an enabled hook issues one fetch; a re-render whose
\* params changed by value, or whose enabled changed, issues exactly one
\* fetch when the hook is then enabled, after cancelling the controller of
\* the previous one; a re-render whose params are equal by value and whose
\* enabled is the same issues no fetch, cancels nothing and changes no
\* state; no step issues a fetch for a hook that is disabled
C22_FetchPerChange ==
    [][LET mount == hp.phase = "rendered" /\ hp'.phase = "mounted"
           rerender == /\ hp.phase = "mounted" /\ hp'.phase = "mounted"
                       /\ hp'.props /= hp.props \/ hp'.enabled /= hp.enabled
           changed == \/ ~EqualByValue(hp'.props, hp.props)
                      \/ hp'.enabled /= hp.enabled
       IN /\ mount =>
                Cardinality(NewFetches) = (IF hp.enabled THEN 1 ELSE 0)
          /\ (rerender /\ changed) =>
                /\ Cardinality(NewFetches) = (IF hp'.enabled THEN 1 ELSE 0)
                /\ hp.ctrl /= 0 => hp.ctrl \in hp'.aborted
                /\ hp'.params = hp'.props
          /\ (rerender /\ ~changed) =>
                /\ reqs' = reqs
                /\ hp' = [hp EXCEPT !.props = hp'.props]
          /\ NewFetches /= {} => hp'.enabled /\ Cardinality(NewFetches) = 1
          /\ EqualByValue(hp'.params, hp'.props)
      ]_vars

\* C22 witness: the hook was mounted with {page: 1}, fetched once and got
\* its data, and was then re-rendered with {page: 1, query: undefined}: no
\* second fetch, nothing cancelled
C22_Witness ==
    /\ hp.phase = "mounted" /\ hp.enabled
    /\ hp.params = << <<"page", JSNum(1)>> >>
    /\ hp.props = << <<"page", JSNum(1)>>, <<"query", JSUndefined>> >>
    /\ Issued = {1} /\ reqs[1].pc = "done"
    /\ hp.data = 1 /\ ~hp.loading
    /\ hp.ctrl = 1 /\ hp.aborted = {}

----------------------------------------------------------------------------
(* Claims about two hook instances, checked under SpecInstances *)

\* the step issues, advances or resolves a request of `owner`, or cancels:
\* the instance, whose state goes from h to n, aborts a controller
ActsOn(owner, h, n) ==
    \/ \E r \in ReqIds : reqs'[r] /= reqs[r] /\ reqs'[r].owner = owner
    \/ n.aborted /= h.aborted

\* the requests of `owner` are as they were
RequestsKept(owner) ==
    \A r \in ReqIds : reqs[r].owner = owner => reqs'[r] = reqs[r]

\* C24: a step that issues, cancels or resolves a fetch of one hook instance
\* leaves the state of every other instance as it was (data, loading,
\* error, controller and its aborted flag, timers) and its requests too,
\* for two instances of useProducts as for instances of different hooks
C24_Isolation ==
    [][/\ ActsOn("useProducts", hp, hp') =>
            /\ hq' = hq /\ hs' = hs
            /\ RequestsKept("useProducts#2")
            /\ RequestsKept("useSearchSuggestions")
       /\ ActsOn("useProducts#2", hq, hq') =>
            /\ hp' = hp /\ hs' = hs
            /\ RequestsKept("useProducts")
            /\ RequestsKept("useSearchSuggestions")
       /\ (ActsOn("useSearchSuggestions", hs, hs') \/ hs'.timers /= hs.timers) =>
            /\ hp' = hp /\ hq' = hq
            /\ RequestsKept("useProducts")
            /\ RequestsKept("useProducts#2")
      ]_vars

\* C24 witness: of two useProducts instances the first has issued a fetch,
\* got its data and aborted its controller at unmount, while the second is
\* still loading its own fetch, with no data and nothing aborted
C24_Witness ==
    /\ hp.phase = "unmounted" /\ hq.phase = "mounted"
    /\ hp.data /= NullData /\ ~hp.loading /\ hp.aborted /= {}
    /\ hq.data = NullData /\ hq.loading /\ hq.aborted = {}
    /\ hq.ctrl \in Pending /\ hq.ctrl /= hp.ctrl

----------------------------------------------------------------------------
(* Claims about useShops, checked under SpecShops *)

\* C16 (as claimed): at most one request of the hook is in flight, and no
\* fetch other than the most recent one has set the state of the hook
C16_OneFetchInFlight ==
    /\ Cardinality(PendingOf("useShops")) <= 1
    /\ ~hsh.staleWrite

----------------------------------------------------------------------------
(* Claims about failing fetches, checked under SpecHooks *)

\* the step settles request r of `owner` with an error
Fails(r, owner) ==
    /\ reqs[r].owner = owner
    /\ reqs[r].pc \notin {"idle", "done"}
    /\ reqs'[r].pc = "done"
    /\ reqs'[r].result.kind = "error"

\* the step starts a request for `owner`
Starts(owner) ==
    \E r \in ReqIds : reqs[r].pc = "idle" /\ reqs'[r].owner = owner

\* in useProducts and useShops a failing fetch sets the error and
\* loading=false and leaves data as it was; a starting fetch clears the
\* error and leaves data as it was
ResourceFailureKeepsData ==
    /\ \A r \in ReqIds :
          /\ (Fails(r, "useProducts") /\ hp.phase = "mounted") =>
                /\ hp'.error = getErrorMessage(reqs'[r].result.error)
                /\ hp'.error /= NullStr
                /\ ~hp'.loading
                /\ hp'.data = hp.data
          /\ Fails(r, "useShops") =>
                /\ hsh'.error = getErrorMessage(reqs'[r].result.error)
                /\ hsh'.error /= NullStr
                /\ ~hsh'.loading
                /\ hsh'.data = hsh.data
    /\ Starts("useProducts") =>
          hp'.error = NullStr /\ hp'.loading /\ hp'.data = hp.data
    /\ Starts("useShops") =>
          hsh'.error = NullStr /\ hsh'.loading /\ hsh'.data = hsh.data
    /\ Starts("useSearchSuggestions") =>
          /\ hs'.error = NullStr /\ hs'.loading
          /\ hs'.suggestions = hs.suggestions

\* in useSearchSuggestions a failing fetch sets the error and
\* loading=false, and the suggestions become `after`
SuggestionsFailure(after) ==
    \A r \in ReqIds :
        (Fails(r, "useSearchSuggestions") /\ hs.phase = "mounted") =>
            /\ hs'.error = getErrorMessage(reqs'[r].result.error)
            /\ hs'.error /= NullStr
            /\ ~hs'.loading
            /\ hs'.suggestions = after

\* C19 (as claimed): in every hook, useSearchSuggestions included, a
\* failing fetch sets the error and loading=false and leaves the loaded
\* data as it was, and a starting fetch clears the error but not the data
C19_FailureKeepsData ==
    [][ResourceFailureKeepsData /\ SuggestionsFailure(hs.suggestions)]_vars

\* C19 (amended): as claimed for useProducts and useShops and for the
\* start of a fetch; in useSearchSuggestions a failing fetch sets the error
\* and loading=false and resets the suggestions to null
C19_FailureKeepsDataButSuggestions ==
    [][ResourceFailureKeepsData /\ SuggestionsFailure(NullData)]_vars

\* C19 witness: the first request of useSearchSuggestions loaded
\* suggestions; the second one failed after it, and the hook shows the
\* error with no suggestions
C19_Witness ==
    /\ hs.phase = "mounted"
    /\ Issued = {1, 2}
    /\ reqs[1].pc = "done" /\ reqs[1].result.kind = "value"
    /\ reqs[2].pc = "done" /\ reqs[2].result.kind = "error"
    /\ hs.lastSettled = 2
    /\ hs.error = getErrorMessage(reqs[2].result.error)
    /\ ~hs.loading
    /\ hs.suggestions = NullData

----------------------------------------------------------------------------
(* Claims about useSearchSuggestions, checked under SpecSuggestions *)

\* C9: while the hook is mounted at most one debounce timer is pending and
\* it is the one of the current query, and no call of fetchSuggestions has
\* been made since the query last changed; once that timer has fired,
\* exactly one call has been made, with the current query, and it started
\* one request (none when the query is shorter than 2 characters)
C9_Debounce ==
    hs.phase = "mounted" =>
        /\ hs.timers \subseteq {hs.query}
        /\ hs.timers /= {} => hs.callsSinceChange = 0
        /\ hs.timers = {} =>
              /\ hs.callsSinceChange = 1
              /\ hs.lastCall = hs.query
              /\ hs.requestsSinceChange = (IF Len(hs.query) >= 2 THEN 1 ELSE 0)

\* C9 witness: the query changed twice, each time before the pending
\* timer fired; the timer of the last value, "ab", has fired, and its call
\* of fetchSuggestions is the only one ever made
C9_Witness ==
    /\ hs.phase = "mounted"
    /\ hs.changes = 2
    /\ hs.query = "ab"
    /\ hs.timers = {}
    /\ hs.calls = 1
    /\ hs.lastCall = "ab"
    /\ Issued = {1}

\* C26 (as claimed): when the query of the mounted hook is shorter than 2
\* characters, its debounce timer has fired and no request of the hook is
\* in flight, suggestions is null
C26_ShortQueryClears ==
    (/\ hs.phase = "mounted"
     /\ Len(hs.query) < 2
     /\ hs.timers = {} /\ hs.callsSinceChange = 1
     /\ PendingOf("useSearchSuggestions") = {}) =>
        hs.suggestions = NullData

----------------------------------------------------------------------------
(* Claims about useInitialData, checked under SpecInitial *)

\* the three fetches of the first run have settled
FirstRunSettled ==
    /\ hi.runs = 1
    /\ \A r \in 1..3 : reqs[r].pc = "done"

\* C10: after the first run each resource holds the value of its own fetch
\* when that fetch succeeded and is null otherwise, loading is false, and
\* the overall error is set exactly when all three fetches failed
C10_PartialFailure ==
    FirstRunSettled =>
        /\ hi.products =
              (IF reqs[1].result.kind = "value" THEN reqs[1].result.value ELSE NullData)
        /\ hi.categories =
              (IF reqs[2].result.kind = "value" THEN reqs[2].result.value ELSE NullData)
        /\ hi.cities =
              (IF reqs[3].result.kind = "value" THEN reqs[3].result.value ELSE NullData)
        /\ (hi.error /= NullStr) <=>
              (\A r \in 1..3 : reqs[r].result.kind = "error")
        /\ ~hi.loading

\* C10 witness: products succeeded, categories and cities failed
C10_Witness ==
    /\ FirstRunSettled
    /\ reqs[1].slot = "products" /\ reqs[1].result.kind = "value"
    /\ reqs[2].slot = "categories" /\ reqs[2].result.kind = "error"
    /\ reqs[3].slot = "cities" /\ reqs[3].result.kind = "error"
    /\ hi.products = 1 /\ hi.categories = NullData /\ hi.cities = NullData
    /\ hi.error = NullStr

\* C27: the step that starts the run of the mount starts its three fetches
\* together, before any of them has settled; while one of the three is
\* still in flight loading is true and products, categories, cities and
\* error are as they were at the start; a resource is set only in a state in
\* which all three have settled and loading is false
C27_AllSettledGate ==
    [][/\ (hi.runs = 0 /\ hi'.runs = 1) =>
            /\ \A i \in 1..3 :
                  \E r \in ReqIds :
                      /\ NewRequest(r, "useInitialData")
                      /\ reqs'[r].slot = Slots[i]
            /\ Cardinality({r \in ReqIds : NewRequest(r, "useInitialData")}) = 3
            /\ hi'.loading
       /\ (hi'.runs = 1 /\ ~FirstRunSettled') =>
            /\ hi'.loading
            /\ hi'.products = NullData /\ hi'.categories = NullData
            /\ hi'.cities = NullData /\ hi'.error = NullStr
       /\ (\/ hi'.products /= NullData \/ hi'.categories /= NullData
           \/ hi'.cities /= NullData \/ ~hi'.loading) =>
            FirstRunSettled' /\ ~hi'.loading
      ]_vars

\* C27 witness: products has succeeded and categories has failed while
\* cities is still in flight: loading is true and no resource is set
C27_Witness ==
    /\ hi.runs = 1
    /\ reqs[1].slot = "products" /\ reqs[1].result.kind = "value"
    /\ reqs[2].slot = "categories" /\ reqs[2].result.kind = "error"
    /\ reqs[3].slot = "cities" /\ reqs[3].pc \in {"fetch", "sleep", "json"}
    /\ hi.loading
    /\ hi.products = NullData /\ hi.categories = NullData
    /\ hi.cities = NullData

----------------------------------------------------------------------------
(* Claims about the storefront page, checked under SpecBrowser *)

\* the five filter states of the page
Filters(b) ==
    [searchQuery |-> b.searchQuery, selectedCategory |-> b.selectedCategory,
     selectedCity |-> b.selectedCity, priceRange |-> b.priceRange,
     sortBy |-> b.sortBy]

\* the values the query string of a products request carries under a key
Carried(params, key) ==
    LET sent == AppendEntries(params) IN
    {sent[i][2] : i \in {j \in 1..Len(sent) : sent[j][1] = key}}

\* the products request the hook started last is in flight and carries
\* page 1 and the filter values of b
CarriesFirstPageOf(b) ==
    /\ hp'.ctrl \in ReqIds /\ reqs[hp'.ctrl].pc = "idle"
    /\ reqs'[hp'.ctrl].pc = "fetch"
    /\ hp'.loading
    /\ Carried(hp'.fetched, "page") = {"1"}
    /\ Carried(hp'.fetched, "query") =
          IF b.searchQuery = "" THEN {} ELSE {b.searchQuery}
    /\ Carried(hp'.fetched, "category") =
          IF b.selectedCategory = "all" THEN {} ELSE {b.selectedCategory}
    /\ Carried(hp'.fetched, "city") =
          IF b.selectedCity = "all" THEN {} ELSE {b.selectedCity}
    /\ Carried(hp'.fetched, "min_price") = {ToString(b.priceRange[1])}
    /\ Carried(hp'.fetched, "max_price") = {ToString(b.priceRange[2])}
    /\ Carried(hp'.fetched, "sort_by") = {b.sortBy}

\* C29: on the storefront page a task that changes searchQuery,
\* selectedCategory, selectedCity, priceRange or sortBy ends with
\* currentPage = 1 and with a new products request in flight that carries
\* page=1 and the new filter values; a task of handlePageChange leaves the
\* five filter values as they were
C29_FilterResetsPage ==
    [][/\ (browser.phase = "mounted" /\ Filters(browser') /= Filters(browser))
          => /\ browser'.currentPage = 1
             /\ CarriesFirstPageOf(browser')
       /\ (browser' /= browser /\ browser'.last = "handlePageChange")
          => /\ Filters(browser') = Filters(browser)
             /\ Carried(hp'.fetched, "page") =
                   {ToString(browser'.currentPage)}]_vars

\* the page was mounted, the pagination controls went to page 2, and the
\* sort order changed: two requests started in the last task, the one for
\* page 2 was aborted and the one in flight carries page 1
C29_Witness ==
    /\ browser.phase = "mounted"
    /\ browser.last = "setSortBy" /\ browser.sortBy = "price_asc"
    /\ browser.currentPage = 1
    /\ Issued = {1, 2, 3, 4}
    /\ hp.ctrl = 4 /\ 3 \in hp.aborted
    /\ reqs[4].pc = "fetch"
    /\ Carried(hp.fetched, "page") = {"1"}
    /\ Carried(hp.fetched, "sort_by") = {"price_asc"}

====
